---------------------------- MODULE Spec2Model ----------------------------
(***************************************************************************)
(* A model of the capability-probing scripts of cin7-pendo-api.            *)
(*                                                                         *)
(* Part 1: WriteAccessAnalyzer (examples/write_access_analyzer.py), the    *)
(* read-only safety gate, its audit log and the four analysis phases.      *)
(* Part 2: RealPendoAPIExplorer (examples/real_pendo_api_explorer.py), the *)
(* scan of every base URL against every endpoint.                          *)
(* Part 3: PendoEngageAPIExplorer (examples/api-examples/                   *)
(* engage_api_explorer.py), the test of every authentication variant.      *)
(* Part 4: PendoAccessInvestigator (examples/                               *)
(* access_capabilities_investigator.py) over PendoAPIClientV2              *)
(* (src/pendo_client_v2.py): the investigation run, the classification of  *)
(* its results and the report.                                             *)
(* Part 5: PendoAPIExplorer (examples/api-examples/api_explorer.py), its    *)
(* endpoint test and the full exploration.                                 *)
(* Part 6: the credential, from the environment to the clients and to what *)
(* the scripts show of it.                                                 *)
(* Part 7: test_connection of the two clients.                             *)
(* Part 8: AutoCommitManager (scripts/auto_commit.py), the add, commit and *)
(* push workflow.                                                          *)
(* Each part has its own specification; the objects of the other parts     *)
(* stay as constructed.                                                    *)
(*                                                                         *)
(* Strings that the code inspects character by character (HTTP methods,    *)
(* on which it calls str.upper) are tuples of one-letter strings.  An HTTP *)
(* exchange is a record: either a transport error (RequestException) or a  *)
(* response with a status code, a content type and a body shape.           *)
(***************************************************************************)
EXTENDS Integers, Sequences, FiniteSets, TLC

VARIABLES
    security_log,      \* WriteAccessAnalyzer.security_log
    analysis_results,  \* WriteAccessAnalyzer.analysis_results
    sent,              \* the requests session.request was invoked with
    calls,             \* number of safe_read_only_request invocations
    last,              \* what the latest safe_read_only_request call did
    frame,             \* the running phase method: position and locals
    security_report,   \* what the latest generate_security_report call returned
    explorer,          \* RealPendoAPIExplorer: results, working_base_url, ...
    scan,              \* the running test_real_pendo_endpoints call
    followup,          \* the running follow-up probe of RealPendoAPIExplorer
    engage,            \* the running test_engage_api_authentication call
    investigator,      \* PendoAccessInvestigator: results
    run,               \* the running run_complete_investigation call
    analysis,          \* what the latest analyze_permissions call returned
    previous,          \* what the analyze_permissions call before it returned
    api_explorer,      \* PendoAPIExplorer: discovered_endpoints
    probe,             \* the latest direct test_pendo_endpoint / test_endpoint call
    exploration,       \* the running or latest PendoAPIExplorer.run_full_exploration call
    environment,       \* os.environ: PENDO_API_KEY
    client,            \* the latest client construction or test_api_integration.main run
    outputs,           \* the latest report field or printed line showing the key
    connection,        \* the test_connection calls made on the two clients
    committer          \* AutoCommitManager: commit_log, the auto_commit_and_push call

analyzerVars == <<security_log, analysis_results, sent, calls, last, frame,
                  security_report>>

explorerVars == <<explorer, scan, followup>>

engageVars == <<engage>>

investigatorVars == <<investigator, run, analysis, previous>>

probeVars == <<api_explorer, probe, exploration>>

configVars == <<environment, client, outputs>>

connectionVars == <<connection>>

committerVars == <<committer>>

vars == <<analyzerVars, explorerVars, engageVars, investigatorVars, probeVars,
          configVars, connectionVars, committerVars>>

\* what the actions of each part leave alone
notAnalyzer ==
    <<explorerVars, engageVars, investigatorVars, probeVars, configVars,
      connectionVars, committerVars>>

notExplorer ==
    <<analyzerVars, engageVars, investigatorVars, probeVars, configVars,
      connectionVars, committerVars>>

notEngage ==
    <<analyzerVars, explorerVars, investigatorVars, probeVars, configVars,
      connectionVars, committerVars>>

notInvestigator ==
    <<analyzerVars, explorerVars, engageVars, probeVars, configVars,
      connectionVars, committerVars>>

notProbe ==
    <<analyzerVars, explorerVars, engageVars, investigatorVars, configVars,
      connectionVars, committerVars>>

notConfig ==
    <<analyzerVars, explorerVars, engageVars, investigatorVars, probeVars,
      connectionVars, committerVars>>

notConnection ==
    <<analyzerVars, explorerVars, engageVars, investigatorVars, probeVars,
      configVars, committerVars>>

notCommitter ==
    <<analyzerVars, explorerVars, engageVars, investigatorVars, probeVars,
      configVars, connectionVars>>

-----------------------------------------------------------------------------
(* Bounds of the model. *)

\* safe_read_only_request calls made in one behaviour
MaxCalls == 3

\* the catalogs of every phase are cut to their first NumEndpoints entries
NumEndpoints == 1

\* RealPendoAPIExplorer scans the first NumHosts base URLs and the first
\* NumPaths endpoints
NumHosts == 2

NumPaths == 2

\* PendoEngageAPIExplorer tries the first NumAuthMethods variants against
\* the first NumEngagePaths endpoints
NumAuthMethods == 4

NumEngagePaths == 3

\* the longest result list analyze_permissions is applied to on its own
MaxOps == 100

\* direct calls of test_pendo_endpoint and test_endpoint in one behaviour
MaxProbes == 2

\* run_full_exploration calls on one PendoAPIExplorer
MaxRuns == 2

\* PendoAPIExplorer.test_endpoint is called on the first NumApiPaths entries
\* of endpoints_to_test
NumApiPaths == 2

\* the number of characters of a short body and of a long one
ShortTextLen == 17

LongTextLen == 201

\* the credentials are 10 characters followed by TailLen more
TailLen == 2

Min(a, b) == IF a < b THEN a ELSE b

Prefix(list) == SubSeq(list, 1, Min(NumEndpoints, Len(list)))

Last(s) == s[Len(s)]

-----------------------------------------------------------------------------
(* str.upper on the letters HTTP method names are made of. *)

LowerLetters == <<"a","b","c","d","e","f","g","h","i","j","k","l","m",
                  "n","o","p","q","r","s","t","u","v","w","x","y","z">>

UpperLetters == <<"A","B","C","D","E","F","G","H","I","J","K","L","M",
                  "N","O","P","Q","R","S","T","U","V","W","X","Y","Z">>

UpperOf ==
    [c \in {LowerLetters[i] : i \in DOMAIN LowerLetters} |->
        UpperLetters[CHOOSE i \in DOMAIN LowerLetters : LowerLetters[i] = c]]

UpperChar(c) == IF c \in DOMAIN UpperOf THEN UpperOf[c] ELSE c

Upper(s) == [i \in DOMAIN s |-> UpperChar(s[i])]

GET     == <<"G","E","T">>
OPTIONS == <<"O","P","T","I","O","N","S">>
HEAD    == <<"H","E","A","D">>
POST    == <<"P","O","S","T">>
PUT     == <<"P","U","T">>
DELETE  == <<"D","E","L","E","T","E">>
PATCH   == <<"P","A","T","C","H">>
TRACE   == <<"T","R","A","C","E">>

\* self.allowed_methods, self.blocked_methods
allowed_methods == {GET, OPTIONS, HEAD}

blocked_methods == {POST, PUT, DELETE, PATCH}

\* the method strings a caller passes to safe_read_only_request
MethodInputs ==
    { GET, <<"g","e","t">>, <<"H","e","a","d">>,
      POST, <<"p","o","s","t">>, <<"D","e","l","e","t","e">>, PUT,
      <<"p","a","t","c","h">>, TRACE }

-----------------------------------------------------------------------------
(* HTTP exchanges.  body is the shape of the response body:                *)
(*   list_nonempty, list_empty, dict_nonempty, dict_empty : JSON arrays,   *)
(*   objects; null : the JSON null; scalar : a JSON number, string or      *)
(*   boolean that is truthy in Python; invalid : a body json() cannot      *)
(*   parse (the empty body included).                                      *)

JsonBodies == {"list_nonempty", "list_empty", "dict_nonempty", "dict_empty",
               "null", "scalar"}

TransportError == [kind |-> "error"]

Response(status, json_ct, body) ==
    [kind |-> "response", status |-> status, json_ct |-> json_ct, body |-> body]

Responses ==
    {TransportError}
    \cup {Response(200, TRUE, b) : b \in JsonBodies \cup {"invalid"}}
    \cup {Response(200, FALSE, "invalid"), Response(202, TRUE, "dict_nonempty"),
          Response(204, FALSE, "invalid"), Response(404, TRUE, "dict_nonempty")}

(* Python values as the code sees them.  None is "None"; the dict          *)
(* {'text': response.text} is text_dict.                                   *)
JsonValue(body) == IF body = "null" THEN "None" ELSE body

IsList(v) == v \in {"list_nonempty", "list_empty"}

IsDict(v) == v \in {"dict_nonempty", "dict_empty", "text_dict"}

Truthy(v) == v \in {"list_nonempty", "dict_nonempty", "text_dict", "scalar"}

(* The number of characters of response.text: the bodies "empty" (no       *)
(* content), "invalid_long" (text that is no JSON, LongTextLen characters) *)
(* and the others (ShortTextLen characters).                               *)
TextLen(body) ==
    IF body = "empty" THEN 0
    ELSE IF body = "invalid_long" THEN LongTextLen
    ELSE ShortTextLen

\* response.text[:200]
PreviewLen == 200

(* The whole text as the preview. *)
text_preview_whole(body) == [of |-> body, len |-> TextLen(body)]

(* response.text[:200], a text being told by the body it is cut from and   *)
(* its length.                                                             *)
text_preview(body) == [of |-> body, len |-> Min(TextLen(body), PreviewLen)]

-----------------------------------------------------------------------------
(* WriteAccessAnalyzer.security_log_entry: the entry appended to           *)
(* security_log (timestamp and the free-text details are left out).        *)
security_log_entry(operation, endpoint, method, success) ==
    [operation |-> operation, endpoint |-> endpoint, method |-> method,
     success |-> success, data_safe |-> TRUE]

(* The two security checks at the head of safe_read_only_request.          *)
GateUnchecked(method) ==
    IF method \in blocked_methods THEN "blocked" ELSE "pass"

Gate(method) ==
    IF Upper(method) \in blocked_methods THEN "blocked"
    ELSE IF Upper(method) \notin allowed_methods THEN "not_permitted"
    ELSE "pass"

(* What the request made after the gate leads to: the value returned and   *)
(* the success flag of the audit entry.                                    *)
Handled(resp) ==
    IF resp.kind = "error" THEN [ret |-> "None", success |-> FALSE]
    ELSE IF resp.status \in {200, 201, 202}
         THEN IF resp.json_ct
              THEN IF resp.body \in JsonBodies
                   THEN [ret |-> JsonValue(resp.body), success |-> TRUE]
                   ELSE [ret |-> "text_dict", success |-> TRUE]
              ELSE [ret |-> "text_dict", success |-> TRUE]
         ELSE [ret |-> "None", success |-> FALSE]

(* safe_read_only_request with the security checks made after the request *)
(* instead of before it.                                                   *)
safe_read_only_request_checked_late(method, endpoint, resp) ==
    LET handled == Handled(resp)
    IN [raised |-> Gate(method) # "pass",
        ret    |-> IF Gate(method) # "pass" THEN "None" ELSE handled.ret,
        log    |-> <<security_log_entry("SAFE_READ_REQUEST", endpoint, method,
                                        handled.success)>>,
        sent   |-> <<method>>]

(* safe_read_only_request(method, endpoint) when the exchange it would     *)
(* make is resp: whether SecurityError is raised, the value returned, the  *)
(* audit entries appended and the requests handed to session.request.      *)
safe_read_only_request(method, endpoint, resp) ==
    IF Gate(method) # "pass"
    THEN [raised |-> TRUE, ret |-> "None", log |-> <<>>, sent |-> <<>>]
    ELSE LET handled == Handled(resp)
         IN [raised |-> FALSE,
             ret    |-> handled.ret,
             log    |-> <<security_log_entry("SAFE_READ_REQUEST", endpoint, method,
                                             handled.success)>>,
             sent   |-> <<method>>]

(* No exchange took place. *)
NoExchange == [kind |-> "none"]

NoCall == [method |-> <<>>, endpoint |-> "", resp |-> NoExchange,
           raised |-> FALSE, ret |-> "None", made |-> FALSE]

(* What a call did, as its caller and the network saw it. *)
CallRecord(method, endpoint, resp, out) ==
    [method |-> method, endpoint |-> endpoint,
     resp |-> IF out.sent = <<>> THEN NoExchange ELSE resp,
     raised |-> out.raised, ret |-> out.ret, made |-> TRUE]

(* The effect of one safe_read_only_request call on the analyzer.          *)
Call(method, endpoint, resp) ==
    LET out == safe_read_only_request(method, endpoint, resp)
    IN /\ security_log' = security_log \o out.log
       /\ sent' = sent \o out.sent
       /\ calls' = calls + 1
       /\ last' = CallRecord(method, endpoint, resp, out)

-----------------------------------------------------------------------------
(* The catalogs of the four phases: (name, endpoint) pairs.                *)

baseline_endpoints ==
    << <<"Guides", "/api/v1/guide">>, <<"Features", "/api/v1/feature">>,
       <<"Pages", "/api/v1/page">>, <<"Reports", "/api/v1/report">>,
       <<"Visitor Schema", "/api/v1/metadata/schema/visitor">>,
       <<"Guide Schema", "/api/v1/metadata/schema/guide">> >>

enhanced_endpoints ==
    << <<"Visitor List", "/api/v1/visitor">>, <<"Account List", "/api/v1/account">>,
       <<"User Profile", "/api/v1/user/me">>, <<"Account Profile", "/api/v1/account/me">>,
       <<"Subscription Info", "/api/v1/subscription">>,
       <<"Usage Statistics", "/api/v1/usage">>,
       <<"Integration Keys", "/api/v1/integrationkeys">>,
       <<"Webhook Settings", "/api/v1/webhooks">>,
       <<"Feature Flags", "/api/v1/featureFlags">>,
       <<"Data Settings", "/api/v1/data-settings">> >>

write_indicator_endpoints ==
    << <<"Visitor Creation", "/api/v1/visitor">>, <<"Account Creation", "/api/v1/account">>,
       <<"Guide Creation", "/api/v1/guide">>, <<"Event Tracking", "/api/v1/track">>,
       <<"Aggregation API", "/api/v1/aggregation">>, <<"Report Creation", "/api/v1/report">>,
       <<"Bulk Operations", "/api/v1/visitors/bulk">>,
       <<"Webhook Management", "/api/v1/webhooks">> >>

permission_test_endpoints ==
    << <<"Visitor Management", "/api/v1/visitor">>,
       <<"Account Management", "/api/v1/account">>,
       <<"User Management", "/api/v1/user/me">>,
       <<"Subscription Access", "/api/v1/subscription">>,
       <<"Usage Analytics", "/api/v1/usage">>,
       <<"API Key Management", "/api/v1/integrationkeys">>,
       <<"Event Tracking", "/api/v1/track">>,
       <<"Aggregation API", "/api/v1/aggregation">> >>

Phases == {"test_baseline_read_access", "test_enhanced_access_endpoints",
           "test_write_capability_indicators", "analyze_permission_differences"}

Catalog(phase) ==
    CASE phase = "test_baseline_read_access" -> Prefix(baseline_endpoints)
      [] phase = "test_enhanced_access_endpoints" -> Prefix(enhanced_endpoints)
      [] phase = "test_write_capability_indicators" -> Prefix(write_indicator_endpoints)
      [] phase = "analyze_permission_differences" -> Prefix(permission_test_endpoints)

Category(phase) ==
    CASE phase = "test_baseline_read_access" -> "Baseline Read Access"
      [] phase = "test_enhanced_access_endpoints" -> "Enhanced Access Testing"
      [] phase = "test_write_capability_indicators" -> "Write Capability Indicators"
      [] phase = "analyze_permission_differences" -> "Permission Difference Analysis"

Idle == [pc |-> "idle", i |-> 0, results |-> <<>>, step |-> "",
         options_data |-> "None", head_response |-> "None"]

Put(results, name, entry) == (name :> entry) @@ results

(* results[name] of test_baseline_read_access and                          *)
(* test_enhanced_access_endpoints for one endpoint.                        *)
ReadResult(out) ==
    IF out.raised THEN [success |-> FALSE, error |-> "SecurityError"]
    ELSE IF Truthy(out.ret)
         THEN [success |-> TRUE,
               count |-> IF IsList(out.ret) THEN "len" ELSE "data"]
         ELSE [success |-> FALSE, error |-> "No data returned"]

(* results[name] of analyze_permission_differences for one endpoint.       *)
PermissionResult(out) ==
    IF out.raised
    THEN [old_access |-> "BLOCKED", new_access |-> "ERROR", improvement |-> "UNKNOWN"]
    ELSE IF Truthy(out.ret)
         THEN [old_access |-> "BLOCKED", new_access |-> "AVAILABLE",
               improvement |-> "ENHANCED"]
         ELSE [old_access |-> "BLOCKED", new_access |-> "BLOCKED",
               improvement |-> "NONE"]

(* capability_indicators and capability_level of                           *)
(* test_write_capability_indicators.                                       *)
capability_indicators(options_data, head_response, get_data) ==
    [options_available |-> options_data # "None",
     head_accessible   |-> head_response # "None",
     get_accessible    |-> get_data # "None",
     has_data          |-> get_data # "None" /\ (IsDict(get_data) \/ IsList(get_data))]

capability_level(ind) ==
    IF ind.get_accessible /\ ind.has_data THEN "HIGH"
    ELSE IF ind.get_accessible THEN "MEDIUM"
    ELSE IF ind.head_accessible THEN "LOW"
    ELSE "NONE"

IndicatorResult(options_data, head_response, get_data) ==
    [success |-> TRUE,
     capability_level |->
         capability_level(capability_indicators(options_data, head_response, get_data)),
     indicators |-> capability_indicators(options_data, head_response, get_data)]

(* WriteAccessAnalyzer.generate_security_report: the report dict           *)
(* (timestamp, key prefix, base URL and success rate are left out).        *)
generate_security_report(self) ==
    LET write_attempts == SelectSeq(self.security_log,
                                    LAMBDA log : log.method \in blocked_methods)
        data_safe == \A i \in DOMAIN self.security_log : self.security_log[i].data_safe
    IN [total_operations |-> Len(self.security_log),
        successful_operations |->
            Len(SelectSeq(self.security_log, LAMBDA log : log.success)),
        write_attempts_blocked |-> Len(write_attempts),
        data_safety_verified |-> data_safe,
        analysis_categories |-> Len(self.analysis_results),
        security_log_entries |-> Len(self.security_log),
        data_modification_attempts |-> 0,
        safety_status |-> IF data_safe /\ Len(write_attempts) = 0
                          THEN "VERIFIED SAFE" ELSE "NEEDS REVIEW"]

(* No report was generated. *)
NoSecurityReport == [made |-> FALSE]

-----------------------------------------------------------------------------
(* The analyzer after __init__. *)
AnalyzerInit ==
    /\ security_log = <<>>
    /\ analysis_results = <<>>
    /\ sent = <<>>
    /\ calls = 0
    /\ last = NoCall
    /\ frame = Idle
    /\ security_report = NoSecurityReport

DirectEndpoints == {"/api/v1/visitor"}

(* A caller invokes safe_read_only_request directly. *)
SafeReadOnlyRequest ==
    /\ frame.pc = "idle"
    /\ calls < MaxCalls
    /\ \E method \in MethodInputs, endpoint \in DirectEndpoints, resp \in Responses :
          Call(method, endpoint, resp)
    /\ UNCHANGED <<analysis_results, frame>>
    /\ UNCHANGED security_report
    /\ UNCHANGED notAnalyzer

(* A caller invokes one of the four phase methods. *)
StartPhase ==
    /\ frame.pc = "idle"
    /\ calls < MaxCalls
    /\ \E phase \in Phases :
          frame' = [Idle EXCEPT !.pc = phase, !.i = 1,
                      !.step = IF phase = "test_write_capability_indicators"
                               THEN "options" ELSE ""]
    /\ UNCHANGED <<security_log, analysis_results, sent, calls, last>>
    /\ UNCHANGED security_report
    /\ UNCHANGED notAnalyzer

Running(phase) ==
    /\ frame.pc = phase
    /\ calls < MaxCalls
    /\ frame.i <= Len(Catalog(phase))

Name(phase) == Catalog(phase)[frame.i][1]

Endpoint(phase) == Catalog(phase)[frame.i][2]

(* One iteration of the loop of test_baseline_read_access. *)
BaselineStep ==
    /\ Running("test_baseline_read_access")
    /\ \E resp \in Responses :
         LET phase == "test_baseline_read_access"
             out == safe_read_only_request(GET, Endpoint(phase), resp)
         IN /\ Call(GET, Endpoint(phase), resp)
            /\ frame' = [frame EXCEPT !.i = @ + 1,
                           !.results = Put(@, Name(phase), ReadResult(out))]
    /\ UNCHANGED analysis_results
    /\ UNCHANGED security_report
    /\ UNCHANGED notAnalyzer

(* One iteration of the loop of test_enhanced_access_endpoints. *)
EnhancedStep ==
    /\ Running("test_enhanced_access_endpoints")
    /\ \E resp \in Responses :
         LET phase == "test_enhanced_access_endpoints"
             out == safe_read_only_request(GET, Endpoint(phase), resp)
         IN /\ Call(GET, Endpoint(phase), resp)
            /\ frame' = [frame EXCEPT !.i = @ + 1,
                           !.results = Put(@, Name(phase), ReadResult(out))]
    /\ UNCHANGED analysis_results
    /\ UNCHANGED security_report
    /\ UNCHANGED notAnalyzer

(* test_write_capability_indicators: the OPTIONS, HEAD and GET requests of *)
(* one iteration, one action each; an exception ends the iteration.        *)
Failed(phase) ==
    [frame EXCEPT !.i = @ + 1, !.step = "options",
        !.results = Put(@, Name(phase), [success |-> FALSE, error |-> "SecurityError"])]

IndicatorsOptions ==
    /\ Running("test_write_capability_indicators")
    /\ frame.step = "options"
    /\ \E resp \in Responses :
         LET phase == "test_write_capability_indicators"
             out == safe_read_only_request(OPTIONS, Endpoint(phase), resp)
         IN /\ Call(OPTIONS, Endpoint(phase), resp)
            /\ frame' = IF out.raised THEN Failed(phase)
                        ELSE [frame EXCEPT !.step = "head", !.options_data = out.ret]
    /\ UNCHANGED analysis_results
    /\ UNCHANGED security_report
    /\ UNCHANGED notAnalyzer

IndicatorsHead ==
    /\ Running("test_write_capability_indicators")
    /\ frame.step = "head"
    /\ \E resp \in Responses :
         LET phase == "test_write_capability_indicators"
             out == safe_read_only_request(HEAD, Endpoint(phase), resp)
         IN /\ Call(HEAD, Endpoint(phase), resp)
            /\ frame' = IF out.raised THEN Failed(phase)
                        ELSE [frame EXCEPT !.step = "get", !.head_response = out.ret]
    /\ UNCHANGED analysis_results
    /\ UNCHANGED security_report
    /\ UNCHANGED notAnalyzer

IndicatorsGet ==
    /\ Running("test_write_capability_indicators")
    /\ frame.step = "get"
    /\ \E resp \in Responses :
         LET phase == "test_write_capability_indicators"
             out == safe_read_only_request(GET, Endpoint(phase), resp)
         IN /\ Call(GET, Endpoint(phase), resp)
            /\ frame' = IF out.raised THEN Failed(phase)
                        ELSE [frame EXCEPT !.i = @ + 1, !.step = "options",
                                !.results = Put(@, Name(phase),
                                    IndicatorResult(frame.options_data,
                                                    frame.head_response, out.ret))]
    /\ UNCHANGED analysis_results
    /\ UNCHANGED security_report
    /\ UNCHANGED notAnalyzer

(* One iteration of the loop of analyze_permission_differences. *)
PermissionsStep ==
    /\ Running("analyze_permission_differences")
    /\ \E resp \in Responses :
         LET phase == "analyze_permission_differences"
             out == safe_read_only_request(GET, Endpoint(phase), resp)
         IN /\ Call(GET, Endpoint(phase), resp)
            /\ frame' = [frame EXCEPT !.i = @ + 1,
                           !.results = Put(@, Name(phase), PermissionResult(out))]
    /\ UNCHANGED analysis_results
    /\ UNCHANGED security_report
    /\ UNCHANGED notAnalyzer

(* The end of a phase method: its results are appended to                  *)
(* analysis_results and it returns.                                        *)
FinishPhase ==
    /\ frame.pc \in Phases
    /\ frame.i > Len(Catalog(frame.pc))
    /\ analysis_results' = Append(analysis_results,
           [category |-> Category(frame.pc), results |-> frame.results])
    /\ frame' = Idle
    /\ UNCHANGED <<security_log, sent, calls, last>>
    /\ UNCHANGED security_report
    /\ UNCHANGED notAnalyzer

(* A caller invokes generate_security_report; after_calls is the number of *)
(* safe_read_only_request calls made before it.                            *)
GenerateSecurityReport ==
    /\ frame.pc = "idle"
    /\ security_report' =
          [made |-> TRUE, after_calls |-> calls,
           report |-> generate_security_report(
                          [security_log |-> security_log,
                           analysis_results |-> analysis_results])]
    /\ UNCHANGED <<security_log, analysis_results, sent, calls, last, frame>>
    /\ UNCHANGED notAnalyzer

NextAnalyzer ==
    \/ SafeReadOnlyRequest
    \/ StartPhase
    \/ BaselineStep
    \/ EnhancedStep
    \/ IndicatorsOptions
    \/ IndicatorsHead
    \/ IndicatorsGet
    \/ PermissionsStep
    \/ FinishPhase

(* Direct safe_read_only_request calls and the security reports made       *)
(* between them.                                                           *)
NextSecurityReport ==
    \/ SafeReadOnlyRequest
    \/ GenerateSecurityReport

-----------------------------------------------------------------------------
(* Part 2: RealPendoAPIExplorer.                                           *)

base_urls ==
    <<"https://app.pendo.io", "https://app.eu.pendo.io", "https://us1.app.pendo.io",
      "https://app.jpn.pendo.io", "https://app.au.pendo.io">>

api_endpoints ==
    <<"/api/v1/aggregation", "/api/v1/aggregate",
      "/api/v1/visitor", "/api/v1/visitors", "/api/v1/visitor/{visitorId}",
      "/api/v1/visitors/bulk",
      "/api/v1/account", "/api/v1/accounts", "/api/v1/account/{accountId}",
      "/api/v1/accounts/bulk",
      "/api/v1/guide", "/api/v1/guides", "/api/v1/guide/{guideId}",
      "/api/v1/guides/bulk",
      "/api/v1/feature", "/api/v1/features", "/api/v1/feature/{featureId}",
      "/api/v1/page", "/api/v1/pages", "/api/v1/page/{pageId}",
      "/api/v1/track", "/api/v1/events",
      "/api/v1/report", "/api/v1/reports", "/api/v1/report/{reportId}",
      "/api/v1/metadata/schema", "/api/v1/metadata/fields",
      "/api/v1/usage", "/api/v1/subscription",
      "/api/v1/status", "/api/v1/health">>

Hosts == SubSeq(base_urls, 1, Min(NumHosts, Len(base_urls)))

Paths == SubSeq(api_endpoints, 1, Min(NumPaths, Len(api_endpoints)))

(* The exchanges the scan is run against: a transport error, a 200 with a  *)
(* JSON object, a 204 without content, a 400 whose JSON body does not      *)
(* parse.                                                                  *)
ScanResponses ==
    {TransportError, Response(200, TRUE, "dict_nonempty"),
     Response(204, FALSE, "empty"), Response(400, TRUE, "invalid")}

(* A Python dict: has it the key? *)
HasKey(d, key) == key \in DOMAIN d

(* RealPendoAPIExplorer.test_pendo_endpoint: the dict it returns. *)
test_pendo_endpoint(base_url, endpoint, method, resp) ==
    IF resp.kind = "error"
    THEN [base_url |-> base_url, endpoint |-> endpoint, method |-> method,
          success |-> FALSE, error |-> "RequestException"]
    ELSE [base_url |-> base_url, endpoint |-> endpoint, method |-> method,
          status_code |-> resp.status, success |-> resp.status < 400,
          content_type |-> IF resp.json_ct THEN "application/json" ELSE ""]
         @@ (IF resp.body # "empty" /\ resp.json_ct
             THEN IF resp.body \in JsonBodies
                  THEN [sample_data |-> JsonValue(resp.body)]
                  ELSE [text_preview |-> text_preview(resp.body)]
             ELSE IF resp.body # "empty"
                  THEN [text_preview |-> text_preview(resp.body)]
                  ELSE <<>>)

(* Line 124 with the indentation of line 121: results kept only for a     *)
(* base URL that has a working endpoint.                                   *)
ExtendIfWorking(results, base_url_results) ==
    IF \E i \in DOMAIN base_url_results : base_url_results[i].success
    THEN results \o base_url_results
    ELSE results

(* The results of a base URL put in front of those already kept. *)
ExtendInFront(results, base_url_results) == base_url_results \o results

(* self.results.extend(base_url_results) *)
Extend(results, base_url_results) == results \o base_url_results

(* The follow-up probes: the queries of test_aggregation_api and the       *)
(* operations of test_visitor_metadata_operations and                      *)
(* test_guide_operations, each with the method and the endpoint handed to  *)
(* test_pendo_endpoint.                                                    *)
aggregation_queries ==
    <<[name |-> "Visitor Count", method |-> "POST", endpoint |-> "/api/v1/aggregation"],
      [name |-> "Account Count", method |-> "POST", endpoint |-> "/api/v1/aggregation"],
      [name |-> "Guide Activity", method |-> "POST", endpoint |-> "/api/v1/aggregation"]>>

visitor_operations ==
    <<[name |-> "List Visitors", method |-> "GET", endpoint |-> "/api/v1/visitor"],
      [name |-> "Get Visitor Metadata Schema", method |-> "GET",
       endpoint |-> "/api/v1/metadata/schema/visitor"],
      [name |-> "Create/Update Visitor", method |-> "POST",
       endpoint |-> "/api/v1/visitor"]>>

guide_operations ==
    <<[name |-> "List Guides", method |-> "GET", endpoint |-> "/api/v1/guide"],
      [name |-> "Get Guide Schema", method |-> "GET",
       endpoint |-> "/api/v1/metadata/schema/guide"]>>

(* The follow-up probes in the order run_complete_exploration calls them. *)
follow_up_probes ==
    <<"test_aggregation_api", "test_visitor_metadata_operations",
      "test_guide_operations">>

Operations(probe_method) ==
    CASE probe_method = "test_aggregation_api" -> aggregation_queries
      [] probe_method = "test_visitor_metadata_operations" -> visitor_operations
      [] probe_method = "test_guide_operations" -> guide_operations

(* The key the name of the query or operation is stored under. *)
NameKey(probe_method) ==
    IF probe_method = "test_aggregation_api" THEN "query_name" ELSE "operation_name"

(* The exchanges the follow-up probes are run against. *)
FollowUpResponses == {TransportError, Response(200, TRUE, "dict_nonempty")}

(* A follow-up probe that goes on whether or not a base URL was kept. *)
has_working_base_url_always(self) == TRUE

(* hasattr(self, 'working_base_url') *)
has_working_base_url(self) == self.working_base_url # "unset"

(* No follow-up probe was called. *)
NoFollowUp ==
    [pc |-> "idle", caller |-> "none", probe_method |-> "none", n |-> 0, i |-> 0,
     results |-> <<>>, requests |-> <<>>, returned |-> <<>>, all_results |-> <<>>]

(* The head of a follow-up probe: without a working base URL it returns    *)
(* the empty list, with one it enters its loop.                            *)
EnterFollowUp(self, state, n) ==
    IF has_working_base_url(self)
    THEN [state EXCEPT !.pc = "running", !.probe_method = follow_up_probes[n],
                       !.n = n, !.i = 1, !.results = <<>>]
    ELSE [state EXCEPT !.pc = "returned", !.probe_method = follow_up_probes[n],
                       !.n = n, !.returned = <<>>]

(* The explorer after __init__; working_base_url "unset" stands for the    *)
(* attribute not being set.                                                *)
ExplorerInit ==
    /\ explorer = [results |-> <<>>, working_base_url |-> "unset",
                   working_endpoints |-> <<>>]
    /\ scan = [pc |-> "idle", h |-> 0, e |-> 0, base_url_results |-> <<>>,
               attempts |-> <<>>, returned |-> <<>>, report |-> [made |-> FALSE]]
    /\ followup = NoFollowUp

(* test_real_pendo_endpoints is called. *)
StartScan ==
    /\ scan.pc = "idle"
    /\ scan' = [scan EXCEPT !.pc = "scan", !.h = 1, !.e = 1]
    /\ UNCHANGED explorer
    /\ UNCHANGED followup
    /\ UNCHANGED notExplorer

(* One iteration of the inner loop: the attempt, the append to             *)
(* base_url_results and the line printed for it.  The line printed for a   *)
(* failure reads result['status_code'], a key the result of a transport    *)
(* error does not have: KeyError leaves the method.                        *)
ScanAttemptAgainst(responses) ==
    /\ scan.pc = "scan"
    /\ scan.h <= Len(Hosts)
    /\ scan.e <= Len(Paths)
    /\ \E resp \in responses :
         LET result == test_pendo_endpoint(Hosts[scan.h], Paths[scan.e], "GET", resp)
             attempt == [base_url |-> Hosts[scan.h], endpoint |-> Paths[scan.e],
                         error |-> resp.kind = "error"]
         IN scan' = [scan EXCEPT
                       !.attempts = Append(@, attempt),
                       !.base_url_results = Append(@, result),
                       !.e = @ + 1,
                       !.pc = IF ~result.success /\ ~HasKey(result, "status_code")
                              THEN "KeyError" ELSE "scan"]
    /\ UNCHANGED explorer
    /\ UNCHANGED followup
    /\ UNCHANGED notExplorer

ScanAttempt == ScanAttemptAgainst(ScanResponses)

(* The end of the outer loop's body: the first base URL with a working     *)
(* endpoint is kept, and the results of this base URL are added.           *)
ScanHostDone ==
    /\ scan.pc = "scan"
    /\ scan.h <= Len(Hosts)
    /\ scan.e > Len(Paths)
    /\ LET working == SelectSeq(scan.base_url_results, LAMBDA r : r.success)
           pin == working # <<>> /\ explorer.working_base_url = "unset"
       IN explorer' = [explorer EXCEPT
                         !.working_base_url = IF pin THEN Hosts[scan.h] ELSE @,
                         !.working_endpoints = IF pin THEN working ELSE @,
                         !.results = Extend(@, scan.base_url_results)]
    /\ scan' = [scan EXCEPT !.h = @ + 1, !.e = 1, !.base_url_results = <<>>]
    /\ UNCHANGED followup
    /\ UNCHANGED notExplorer

(* return self.results *)
ScanReturn ==
    /\ scan.pc = "scan"
    /\ scan.h > Len(Hosts)
    /\ scan' = [scan EXCEPT !.pc = "returned", !.returned = explorer.results]
    /\ UNCHANGED explorer
    /\ UNCHANGED followup
    /\ UNCHANGED notExplorer

(* The lists of all_results one after the other. *)
RECURSIVE Flatten(_)
Flatten(all_results) ==
    IF all_results = <<>> THEN <<>>
    ELSE Head(all_results) \o Flatten(Tail(all_results))

(* RealPendoAPIExplorer.generate_comprehensive_report: the report dict     *)
(* (timestamp, key prefix, case code, success rate and capabilities are    *)
(* left out); None is "None".                                              *)
generate_comprehensive_report(self, all_results) ==
    LET flattened_results == Flatten(all_results)
        successful_results ==
            SelectSeq(flattened_results,
                      LAMBDA r : IF HasKey(r, "success") THEN r.success ELSE FALSE)
    IN [made |-> TRUE,
        base_urls_tested |-> base_urls,
        working_base_url |-> IF self.working_base_url = "unset" THEN "None"
                             ELSE self.working_base_url,
        total_tests |-> Len(flattened_results),
        successful_tests |-> Len(successful_results),
        working_endpoints |-> [i \in DOMAIN successful_results |->
                                  successful_results[i].endpoint],
        detailed_results |-> flattened_results]

(* generate_comprehensive_report called with the results of the scan, by   *)
(* a caller other than run_complete_exploration.                           *)
GenerateComprehensiveReport ==
    /\ scan.pc = "returned"
    /\ followup.pc # "running"
    /\ followup.caller # "run_complete_exploration"
    /\ scan' = [scan EXCEPT
                  !.report = generate_comprehensive_report(explorer, <<explorer.results>>)]
    /\ UNCHANGED explorer
    /\ UNCHANGED followup
    /\ UNCHANGED notExplorer

(* A caller invokes one of the follow-up probes when no scan is running. *)
CallFollowUp ==
    /\ scan.pc \in {"idle", "returned", "KeyError"}
    /\ followup.pc = "idle"
    /\ \E n \in DOMAIN follow_up_probes :
         followup' = EnterFollowUp(explorer, [followup EXCEPT !.caller = "direct"], n)
    /\ UNCHANGED <<explorer, scan>>
    /\ UNCHANGED notExplorer

(* run_complete_exploration after test_real_pendo_endpoints returned: with *)
(* a working base URL it calls the first follow-up probe, without one it   *)
(* goes on to the report.                                                  *)
RunAfterScan ==
    /\ scan.pc = "returned"
    /\ ~scan.report.made
    /\ followup.pc = "idle"
    /\ LET all_results == <<scan.returned>>
           state == [followup EXCEPT !.caller = "run_complete_exploration",
                                     !.all_results = all_results]
       IN IF has_working_base_url(explorer)
          THEN /\ followup' = EnterFollowUp(explorer, state, 1)
               /\ UNCHANGED scan
          ELSE /\ followup' = [state EXCEPT !.pc = "returned"]
               /\ scan' = [scan EXCEPT
                             !.report = generate_comprehensive_report(explorer,
                                                                      all_results)]
    /\ UNCHANGED explorer
    /\ UNCHANGED notExplorer

(* One iteration of the loop of a follow-up probe: the request through     *)
(* test_pendo_endpoint, the append to results and the line printed, which  *)
(* for a failure reads result['status_code'].                              *)
FollowUpRequest ==
    /\ followup.pc = "running"
    /\ followup.i <= Len(Operations(followup.probe_method))
    /\ \E resp \in FollowUpResponses :
         LET operation == Operations(followup.probe_method)[followup.i]
             result == test_pendo_endpoint(explorer.working_base_url,
                                           operation.endpoint, operation.method, resp)
                       @@ (NameKey(followup.probe_method) :> operation.name)
             request == [base_url |-> explorer.working_base_url,
                         endpoint |-> operation.endpoint,
                         method |-> operation.method]
         IN followup' = [followup EXCEPT
                           !.requests = Append(@, request),
                           !.results = Append(@, result),
                           !.i = @ + 1,
                           !.pc = IF ~result.success /\ ~HasKey(result, "status_code")
                                  THEN "KeyError" ELSE "running"]
    /\ UNCHANGED <<explorer, scan>>
    /\ UNCHANGED notExplorer

(* The end of a follow-up probe: it returns its results.                   *)
(* run_complete_exploration adds them to all_results and calls the next    *)
(* probe, or generates the report after the last.                          *)
FollowUpReturn ==
    /\ followup.pc = "running"
    /\ followup.i > Len(Operations(followup.probe_method))
    /\ LET all_results == Append(followup.all_results, followup.results)
           state == [followup EXCEPT !.returned = followup.results]
       IN IF followup.caller = "direct"
          THEN /\ followup' = [state EXCEPT !.pc = "returned"]
               /\ UNCHANGED scan
          ELSE IF followup.n < Len(follow_up_probes)
          THEN /\ followup' = EnterFollowUp(explorer,
                                  [state EXCEPT !.all_results = all_results],
                                  followup.n + 1)
               /\ UNCHANGED scan
          ELSE /\ followup' = [state EXCEPT !.pc = "returned",
                                            !.all_results = all_results]
               /\ scan' = [scan EXCEPT
                             !.report = generate_comprehensive_report(explorer,
                                                                      all_results)]
    /\ UNCHANGED explorer
    /\ UNCHANGED notExplorer

NextExplorer ==
    \/ StartScan
    \/ ScanAttempt
    \/ ScanHostDone
    \/ ScanReturn
    \/ GenerateComprehensiveReport

(* The exchanges of the scan that comes before the follow-up probes: a     *)
(* transport error, a 200 with a JSON object, a 400 whose JSON body does   *)
(* not parse.                                                              *)
ScanResponsesBeforeFollowUp ==
    {TransportError, Response(200, TRUE, "dict_nonempty"),
     Response(400, TRUE, "invalid")}

ScanAttemptBeforeFollowUp == ScanAttemptAgainst(ScanResponsesBeforeFollowUp)

(* The scan followed by the follow-up probes, called one by one or by      *)
(* run_complete_exploration.                                               *)
NextFollowUp ==
    \/ StartScan
    \/ ScanAttemptBeforeFollowUp
    \/ ScanHostDone
    \/ ScanReturn
    \/ CallFollowUp
    \/ RunAfterScan
    \/ FollowUpRequest
    \/ FollowUpReturn

-----------------------------------------------------------------------------
(* Part 3: PendoEngageAPIExplorer.                                         *)

(* auth_methods: the name of each variant, the credential headers it       *)
(* gives and the query parameters it gives.                                *)
auth_methods ==
    << [name |-> "Integration Key Header",
        headers |-> {"X-Pendo-Integration-Key"}, params |-> {}],
       [name |-> "Case Code in Header",
        headers |-> {"X-Pendo-Case-Code", "X-Pendo-Integration-Key"}, params |-> {}],
       [name |-> "Case Code as Bearer Token",
        headers |-> {"Authorization"}, params |-> {}],
       [name |-> "Case Code in Query String",
        headers |-> {}, params |-> {"case_code"}],
       [name |-> "Combined Auth (Integration + Case)",
        headers |-> {"X-Pendo-Integration-Key", "X-Pendo-Case-Code"}, params |-> {}] >>

test_endpoints ==
    <<"/", "/api/v1", "/api/v1/campaigns", "/api/v1/analytics", "/api/v1/feedback",
      "/campaigns", "/analytics", "/engagement",
      "/caseb071f706-e996-4018-8e88-295c586edfe3",
      "/api/v1/cases/b071f706-e996-4018-8e88-295c586edfe3">>

AuthMethods == SubSeq(auth_methods, 1, Min(NumAuthMethods, Len(auth_methods)))

EngagePaths == SubSeq(test_endpoints, 1, Min(NumEngagePaths, Len(test_endpoints)))

(* PendoEngageAPIExplorer.test_endpoint_with_auth: the dict it returns. *)
test_endpoint_with_auth(endpoint, headers, params, resp) ==
    IF resp.kind = "error"
    THEN [endpoint |-> endpoint, success |-> FALSE, error |-> "RequestException",
          auth_method |-> "unknown"]
    ELSE [endpoint |-> endpoint, method |-> "GET", status_code |-> resp.status,
          success |-> resp.status < 400,
          content_type |-> IF resp.json_ct THEN "application/json" ELSE ""]
         @@ (IF resp.body # "empty" /\ resp.json_ct
             THEN IF resp.body \in JsonBodies
                  THEN [sample_data |-> JsonValue(resp.body)]
                  ELSE [parse_error |-> "Could not parse JSON"]
             ELSE IF resp.body # "empty"
                  THEN [text_preview |-> text_preview(resp.body)]
                  ELSE <<>>)

(* The headers that go out: default_headers updated with the variant's. *)
RequestHeaders(headers) == {"X-Pendo-Integration-Key"} \cup headers

(* result['auth_method'] = auth_method['name'] *)
SetAuthMethod(result, name) == [auth_method |-> name] @@ result

EngageInit ==
    engage = [pc |-> "idle", a |-> 0, e |-> 0, auth_results |-> <<>>,
              attempts |-> <<>>, returned |-> <<>>]

(* test_engage_api_authentication is called. *)
StartAuthTest ==
    /\ engage.pc = "idle"
    /\ engage' = [engage EXCEPT !.pc = "auth", !.a = 1, !.e = 1]
    /\ UNCHANGED notEngage

(* One iteration of the inner loop.  auth_results is a fresh list at the   *)
(* first endpoint of each variant.  The line printed for a failure reads   *)
(* result['status_code'], which the result of a transport error lacks.     *)
AuthAttempt ==
    /\ engage.pc = "auth"
    /\ engage.a <= Len(AuthMethods)
    /\ engage.e <= Len(EngagePaths)
    /\ \E resp \in ScanResponses :
         LET auth_method == AuthMethods[engage.a]
             result == SetAuthMethod(
                          test_endpoint_with_auth(EngagePaths[engage.e],
                              auth_method.headers, auth_method.params, resp),
                          auth_method.name)
             attempt == [auth_method |-> auth_method.name,
                         endpoint |-> EngagePaths[engage.e],
                         headers |-> RequestHeaders(auth_method.headers),
                         params |-> auth_method.params,
                         error |-> resp.kind = "error"]
         IN engage' = [engage EXCEPT
                         !.attempts = Append(@, attempt),
                         !.auth_results = Append(IF engage.e = 1 THEN <<>> ELSE @, result),
                         !.e = @ + 1,
                         !.pc = IF ~result.success /\ ~HasKey(result, "status_code")
                                THEN "KeyError" ELSE "auth"]
    /\ UNCHANGED notEngage

(* The end of the outer loop's body (it only prints). *)
AuthMethodDone ==
    /\ engage.pc = "auth"
    /\ engage.a <= Len(AuthMethods)
    /\ engage.e > Len(EngagePaths)
    /\ engage' = [engage EXCEPT !.a = @ + 1, !.e = 1]
    /\ UNCHANGED notEngage

(* return auth_results *)
AuthReturn ==
    /\ engage.pc = "auth"
    /\ engage.a > Len(AuthMethods)
    /\ engage' = [engage EXCEPT !.pc = "returned", !.returned = engage.auth_results]
    /\ UNCHANGED notEngage

NextEngage ==
    \/ StartAuthTest
    \/ AuthAttempt
    \/ AuthMethodDone
    \/ AuthReturn

-----------------------------------------------------------------------------
(* Part 4: PendoAPIClientV2 and PendoAccessInvestigator.                   *)

(* Body shapes the client meets besides JsonBodies: a list whose first     *)
(* element has no 'id', an object with an 'error' key.                     *)
ClientBodies == JsonBodies \cup {"list_noid", "dict_error"}

ClientResponses ==
    {TransportError}
    \cup {Response(200, TRUE, b) :
            b \in {"list_nonempty", "list_noid", "list_empty", "dict_nonempty",
                   "null", "invalid"}}
    \cup {Response(404, TRUE, "dict_nonempty"), Response(404, TRUE, "list_nonempty"),
          Response(500, FALSE, "invalid")}

Value(v) == [kind |-> "value", value |-> v, notfound |-> FALSE]

Raise(kind, notfound) == [kind |-> kind, value |-> "None", notfound |-> notfound]

(* PendoAPIClientV2._make_request: the value returned or the exception     *)
(* raised; notfound says whether the exception's text holds '404' or       *)
(* 'not found'.  raise_for_status raises for a status of 400 and above.    *)
(* An error body that parses to something other than an object has no      *)
(* get(): AttributeError.                                                  *)
make_request(resp) ==
    IF resp.kind = "error" THEN Raise("PendoAPIError", FALSE)
    ELSE IF resp.status >= 400
         THEN IF resp.body \in ClientBodies
              THEN IF IsDict(resp.body) \/ resp.body = "dict_error"
                   THEN Raise("PendoAPIError", resp.status = 404)
                   ELSE Raise("AttributeError", FALSE)
              ELSE Raise("PendoAPIError", resp.status = 404)
         ELSE IF resp.body \in ClientBodies
              THEN Value(JsonValue(resp.body))
              ELSE Raise("PendoAPIError", FALSE)

(* PendoAPIClientV2.test_connection: True, False, or the exception that    *)
(* is not a PendoAPIError.                                                 *)
test_connection(resp) ==
    LET out == make_request(resp)
    IN IF out.kind = "value" THEN Value("True")
       ELSE IF out.kind = "PendoAPIError" THEN Value("False")
       ELSE out

(* PendoAPIClientV2.get_api_status *)
get_api_status(resp) ==
    LET connected == test_connection(resp)
    IN IF connected.kind = "value"
       THEN Value(IF connected.value = "True" THEN "connected" ELSE "not connected")
       ELSE connected

(* PendoAPIClientV2.get_data_overview over the exchanges it makes: the     *)
(* four lists in turn, the first exception ending the requests and turned  *)
(* into an error dict.                                                     *)
get_data_overview(resps) ==
    IF Len(resps) = 4 /\ \A i \in DOMAIN resps : make_request(resps[i]).kind = "value"
    THEN Value("overview")
    ELSE Value("dict_error")

(* PendoAccessInvestigator.log_result: the entry appended to results       *)
(* (timestamp, details and the data sample are left out).                  *)
log_result(category, operation, success) ==
    [category |-> category, operation |-> operation, success |-> success]

read_operations ==
    << <<"Guides", "List All Guides">>, <<"Features", "List All Features">>,
       <<"Pages", "List All Pages">>, <<"Reports", "List All Reports">>,
       <<"Metadata", "Visitor Schema">>, <<"Metadata", "Guide Schema">> >>

subscription_endpoints ==
    << <<"Subscription Info", "/api/v1/subscription">>,
       <<"Usage Statistics", "/api/v1/usage">>,
       <<"Account Details", "/api/v1/account/me">>,
       <<"User Permissions", "/api/v1/user/me">>,
       <<"API Keys Info", "/api/v1/integrationkeys">>,
       <<"Webhook Settings", "/api/v1/webhooks">>,
       <<"Data Settings", "/api/v1/data-settings">>,
       <<"Feature Flags", "/api/v1/featureFlags">> >>

ReadOps == Prefix(read_operations)

AccountOps == Prefix(subscription_endpoints)

(* The operation names the investigator logs, letter by letter: what       *)
(* str.lower and the substring test of the capabilities summary work on.   *)
OperationText ==
    ("List All Guides" :>
        <<"L","i","s","t"," ","A","l","l"," ","G","u","i","d","e","s">>) @@
    ("List All Features" :>
        <<"L","i","s","t"," ","A","l","l"," ","F","e","a","t","u","r","e","s">>) @@
    ("List All Pages" :>
        <<"L","i","s","t"," ","A","l","l"," ","P","a","g","e","s">>) @@
    ("List All Reports" :>
        <<"L","i","s","t"," ","A","l","l"," ","R","e","p","o","r","t","s">>) @@
    ("Visitor Schema" :>
        <<"V","i","s","i","t","o","r"," ","S","c","h","e","m","a">>) @@
    ("Guide Schema" :>
        <<"G","u","i","d","e"," ","S","c","h","e","m","a">>) @@
    ("Create/Update Visitor" :>
        <<"C","r","e","a","t","e","/","U","p","d","a","t","e"," ","V","i","s","i","t","o","r">>) @@
    ("Create/Update Account" :>
        <<"C","r","e","a","t","e","/","U","p","d","a","t","e"," ","A","c","c","o","u","n","t">>) @@
    ("Update Guide" :>
        <<"U","p","d","a","t","e"," ","G","u","i","d","e">>) @@
    ("Run Aggregation Query" :>
        <<"R","u","n"," ","A","g","g","r","e","g","a","t","i","o","n"," ","Q","u","e","r","y">>) @@
    ("Track Custom Event" :>
        <<"T","r","a","c","k"," ","C","u","s","t","o","m"," ","E","v","e","n","t">>) @@
    ("Subscription Info" :>
        <<"S","u","b","s","c","r","i","p","t","i","o","n"," ","I","n","f","o">>) @@
    ("Usage Statistics" :>
        <<"U","s","a","g","e"," ","S","t","a","t","i","s","t","i","c","s">>) @@
    ("Account Details" :>
        <<"A","c","c","o","u","n","t"," ","D","e","t","a","i","l","s">>) @@
    ("User Permissions" :>
        <<"U","s","e","r"," ","P","e","r","m","i","s","s","i","o","n","s">>) @@
    ("API Keys Info" :>
        <<"A","P","I"," ","K","e","y","s"," ","I","n","f","o">>) @@
    ("Webhook Settings" :>
        <<"W","e","b","h","o","o","k"," ","S","e","t","t","i","n","g","s">>) @@
    ("Data Settings" :>
        <<"D","a","t","a"," ","S","e","t","t","i","n","g","s">>) @@
    ("Feature Flags" :>
        <<"F","e","a","t","u","r","e"," ","F","l","a","g","s">>) @@
    ("Bulk Visitor Update" :>
        <<"B","u","l","k"," ","V","i","s","i","t","o","r"," ","U","p","d","a","t","e">>) @@
    ("Create Custom Report" :>
        <<"C","r","e","a","t","e"," ","C","u","s","t","o","m"," ","R","e","p","o","r","t">>) @@
    ("Delete Visitor" :>
        <<"D","e","l","e","t","e"," ","V","i","s","i","t","o","r">>)

(* str.lower *)
LowerOf ==
    [c \in {UpperLetters[i] : i \in DOMAIN UpperLetters} |->
        LowerLetters[CHOOSE i \in DOMAIN UpperLetters : UpperLetters[i] = c]]

LowerChar(c) == IF c \in DOMAIN LowerOf THEN LowerOf[c] ELSE c

Lower(s) == [i \in DOMAIN s |-> LowerChar(s[i])]

(* word in text *)
Contains(text, word) ==
    \E i \in 1..(Len(text) - Len(word) + 1) :
        SubSeq(text, i, i + Len(word) - 1) = word

(* The conditions of the five counts of capabilities_summary, the test of  *)
(* r['success'] apart.                                                     *)
InReadAccess(r) ==
    \/ Contains(Lower(OperationText[r.operation]), <<"r","e","a","d">>)
    \/ r.category \in {"Guides", "Features", "Pages", "Reports", "Metadata"}

InWriteAccess(r) ==
    \/ Contains(Lower(OperationText[r.operation]), <<"c","r","e","a","t","e">>)
    \/ Contains(Lower(OperationText[r.operation]), <<"u","p","d","a","t","e">>)
    \/ Contains(Lower(OperationText[r.operation]), <<"w","r","i","t","e">>)

InManagementAccess(r) == r.category \in {"Analytics", "Events", "Bulk Operations"}

InDeleteAccess(r) == r.category = "Delete"

InAccountAccess(r) == r.category = "Account"

(* len([r for r in self.results if r['success'] and condition]) *)
CountSuccessful(results, In(_)) ==
    Cardinality({i \in DOMAIN results : results[i].success /\ In(results[i])})

(* The capabilities_summary of generate_investigation_report. *)
capabilities_summary(results) ==
    [read_access |-> CountSuccessful(results, InReadAccess),
     write_access |-> CountSuccessful(results, InWriteAccess),
     management_access |-> CountSuccessful(results, InManagementAccess),
     delete_access |-> CountSuccessful(results, InDeleteAccess),
     account_access |-> CountSuccessful(results, InAccountAccess)]

(* The categories dict with every entry counted as a success. *)
CountCategoriesAll(results) ==
    [category \in {results[i].category : i \in DOMAIN results} |->
        [success |-> Cardinality({i \in DOMAIN results :
                                    results[i].category = category}),
         total   |-> Cardinality({i \in DOMAIN results :
                                    results[i].category = category})]]

(* The categories dict of analyze_permissions: for each category met in    *)
(* results, the number of its entries and of its successful entries.       *)
CountCategories(results) ==
    [category \in {results[i].category : i \in DOMAIN results} |->
        [success |-> Cardinality({i \in DOMAIN results :
                                    results[i].category = category /\ results[i].success}),
         total   |-> Cardinality({i \in DOMAIN results :
                                    results[i].category = category})]]

(* sum(1 for r in self.results if r['success']) *)
TotalSuccess(results) == Cardinality({i \in DOMAIN results : results[i].success})

(* The thresholds with > for >=. *)
access_level_exclusive(total_success, total_operations) ==
    IF total_success * 100 > 75 * total_operations THEN "FULL ACCESS"
    ELSE IF total_success * 100 > 50 * total_operations THEN "MODERATE ACCESS"
    ELSE IF total_success * 100 > 25 * total_operations THEN "LIMITED ACCESS"
    ELSE "MINIMAL ACCESS"

(* The access level for overall_success_rate =                             *)
(* (total_success / total_operations) * 100, total_operations > 0.  The    *)
(* comparisons of the rate with 75, 50 and 25 are made on the integers:    *)
(* for the list lengths met here the float rate compares the same way.     *)
access_level(total_success, total_operations) ==
    IF total_success * 100 >= 75 * total_operations THEN "FULL ACCESS"
    ELSE IF total_success * 100 >= 50 * total_operations THEN "MODERATE ACCESS"
    ELSE IF total_success * 100 >= 25 * total_operations THEN "LIMITED ACCESS"
    ELSE "MINIMAL ACCESS"

NotAnalyzed == [called |-> FALSE, raised |-> "none", categories |-> <<>>,
                access_level |-> ""]

(* PendoAccessInvestigator.analyze_permissions: (categories, access_level) *)
(* or, for an empty result list, the ZeroDivisionError of the overall      *)
(* rate.                                                                   *)
analyze_permissions(results) ==
    IF Len(results) = 0
    THEN [called |-> TRUE, raised |-> "ZeroDivisionError", categories |-> <<>>,
          access_level |-> ""]
    ELSE [called |-> TRUE, raised |-> "none",
          categories |-> CountCategories(results),
          access_level |-> access_level(TotalSuccess(results), Len(results))]

(* generate_investigation_report without its try/except around             *)
(* get_api_status.                                                         *)
ReportApiStatusUncaught(out) == out

(* generate_investigation_report, lines 324-328: any exception of          *)
(* get_api_status becomes an error dict.                                   *)
ReportApiStatus(out) ==
    IF out.kind = "value" THEN out ELSE Value("dict_error")

NoReport == [made |-> FALSE]

InvestigatorInit ==
    /\ investigator = [results |-> <<>>]
    /\ run = [pc |-> "idle", i |-> 0, report |-> NoReport, exception |-> "none",
              all_failed |-> TRUE, requests |-> <<>>, delete_probes |-> <<>>]
    /\ analysis = NotAnalyzed
    /\ previous = NotAnalyzed

RequestFailed(resp) == resp.kind = "error" \/ resp.status >= 400

(* The requests of a probe as the run keeps them: the operation probed and *)
(* the HTTP method of each request.                                        *)
Requests(operation, methods) ==
    [k \in DOMAIN methods |-> [operation |-> operation, method |-> methods[k]]]

(* One probe of the run: the requests made (as many methods as exchanges), *)
(* the result logged, the next position.                                   *)
Probe(category, operation, success, methods, resps, pc, i) ==
    /\ investigator' = [investigator EXCEPT
                          !.results = Append(@, log_result(category, operation, success))]
    /\ run' = [run EXCEPT !.pc = pc, !.i = i,
                 !.requests = @ \o Requests(operation, methods),
                 !.all_failed = @ /\ \A k \in DOMAIN resps : RequestFailed(resps[k])]
    /\ UNCHANGED <<analysis, previous>>
    /\ UNCHANGED notInvestigator

(* run_complete_investigation is called. *)
StartInvestigation ==
    /\ run.pc = "idle"
    /\ run' = [run EXCEPT !.pc = "read", !.i = 1]
    /\ UNCHANGED <<investigator, analysis, previous>>
    /\ UNCHANGED notInvestigator

(* investigate_read_capabilities: one iteration. *)
InvestigateRead ==
    /\ run.pc = "read"
    /\ \E resp \in ClientResponses :
         Probe(ReadOps[run.i][1], ReadOps[run.i][2], make_request(resp).kind = "value",
               <<"GET">>, <<resp>>,
               IF run.i < Len(ReadOps) THEN "read" ELSE "write_visitor",
               IF run.i < Len(ReadOps) THEN run.i + 1 ELSE 0)

(* investigate_write_capabilities: the visitor probe. *)
WriteVisitor ==
    /\ run.pc = "write_visitor"
    /\ \E resp \in ClientResponses :
         Probe("Visitor", "Create/Update Visitor", make_request(resp).kind = "value",
               <<"POST">>, <<resp>>, "write_account", 0)

(* investigate_write_capabilities: the account probe. *)
WriteAccount ==
    /\ run.pc = "write_account"
    /\ \E resp \in ClientResponses :
         Probe("Account", "Create/Update Account", make_request(resp).kind = "value",
               <<"POST">>, <<resp>>, "write_guide", 0)

(* What the guide probe does with the guides listed: "put" when the first  *)
(* guide has an id, "skip" when it has none (nothing is logged), "none"    *)
(* when there is no guide, "error" for an exception.                       *)
GuidePlan(listed) ==
    IF listed.kind # "value" THEN "error"
    ELSE IF listed.value \in {"None", "list_empty", "dict_empty"} THEN "none"
    ELSE IF listed.value = "list_nonempty" THEN "put"
    ELSE IF listed.value = "list_noid" THEN "skip"
    ELSE "error"

(* investigate_write_capabilities: the guide probe, list_guides first and  *)
(* then the PUT of the first guide.                                        *)
WriteGuide ==
    /\ run.pc = "write_guide"
    /\ \E listing \in ClientResponses, resp \in ClientResponses :
         LET plan == GuidePlan(make_request(listing))
         IN CASE plan = "put" ->
                   Probe("Guide", "Update Guide", make_request(resp).kind = "value",
                         <<"GET", "PUT">>, <<listing, resp>>, "aggregation", 0)
              [] plan = "skip" ->
                   /\ run' = [run EXCEPT !.pc = "aggregation",
                                !.requests = @ \o Requests("Update Guide", <<"GET">>),
                                !.all_failed = @ /\ RequestFailed(listing)]
                   /\ UNCHANGED <<investigator, analysis, previous>>
                   /\ UNCHANGED notInvestigator
              [] OTHER ->
                   Probe("Guide", "Update Guide", FALSE, <<"GET">>, <<listing>>,
                         "aggregation", 0)

(* investigate_management_capabilities: the aggregation query. *)
ManagementAggregation ==
    /\ run.pc = "aggregation"
    /\ \E resp \in ClientResponses :
         Probe("Analytics", "Run Aggregation Query", make_request(resp).kind = "value",
               <<"POST">>, <<resp>>, "track", 0)

(* investigate_management_capabilities: the track event. *)
ManagementTrack ==
    /\ run.pc = "track"
    /\ \E resp \in ClientResponses :
         Probe("Events", "Track Custom Event", make_request(resp).kind = "value",
               <<"POST">>, <<resp>>, "account", 1)

(* investigate_account_level_info: one iteration. *)
AccountInfo ==
    /\ run.pc = "account"
    /\ \E resp \in ClientResponses :
         Probe("Account", AccountOps[run.i][1], make_request(resp).kind = "value",
               <<"GET">>, <<resp>>,
               IF run.i < Len(AccountOps) THEN "account" ELSE "bulk",
               IF run.i < Len(AccountOps) THEN run.i + 1 ELSE 0)

(* investigate_advanced_features: the bulk update. *)
AdvancedBulk ==
    /\ run.pc = "bulk"
    /\ \E resp \in ClientResponses :
         Probe("Bulk Operations", "Bulk Visitor Update", make_request(resp).kind = "value",
               <<"POST">>, <<resp>>, "report_creation", 0)

(* investigate_advanced_features: the report creation. *)
AdvancedReport ==
    /\ run.pc = "report_creation"
    /\ \E resp \in ClientResponses :
         Probe("Reports", "Create Custom Report", make_request(resp).kind = "value",
               <<"POST">>, <<resp>>, "delete", 0)

(* investigate_delete_capabilities: whether 'Delete Visitor' is logged as  *)
(* a success.  A value that is no container makes the 'in' test raise      *)
(* TypeError, whose text holds neither '404' nor 'not found'.              *)
DeleteSuccess(out) ==
    IF out.kind = "value" THEN out.value = "dict_error" ELSE out.notfound

(* Whether the text of the exception _make_request raises for resp is      *)
(* str(e) of the requests exception, which for an HTTP error ends with     *)
(* "for url: " and the URL, and for a connection error names the URL too:  *)
(* a transport error, or an error status whose JSON object has no          *)
(* 'message'.                                                              *)
TextHoldsUrl(resp) ==
    \/ resp.kind = "error"
    \/ resp.kind = "response" /\ resp.status >= 400 /\ IsDict(resp.body)

(* The exchanges of the delete probe: those of the other probes and a 200  *)
(* with a JSON object that has an 'error' key.                             *)
DeleteResponses == ClientResponses \cup {Response(200, TRUE, "dict_error")}

(* investigate_delete_capabilities: the success flag of the result logged  *)
(* for the GET of a test visitor.  The visitor id ends with the time of    *)
(* the call, "%Y%m%d_%H%M%S"; stamp_404 says whether these digits hold     *)
(* "404", which the test '404' in str(e) then finds in the URL.            *)
investigate_delete_capabilities(resp, stamp_404) ==
    LET out == make_request(resp)
    IN \/ DeleteSuccess(out)
       \/ out.kind = "PendoAPIError" /\ TextHoldsUrl(resp) /\ stamp_404

(* investigate_delete_capabilities within run_complete_investigation. *)
DeleteProbe ==
    /\ run.pc = "delete"
    /\ \E resp \in DeleteResponses, stamp_404 \in BOOLEAN :
         Probe("Delete", "Delete Visitor",
               investigate_delete_capabilities(resp, stamp_404),
               <<"GET">>, <<resp>>, "report", 0)

(* A caller invokes investigate_delete_capabilities on its own; the        *)
(* exchange of each such call is kept in delete_probes.                    *)
InvestigateDeleteCapabilities ==
    /\ run.pc = "idle"
    /\ Len(run.delete_probes) < MaxProbes
    /\ \E resp \in DeleteResponses, stamp_404 \in BOOLEAN :
         /\ investigator' =
               [investigator EXCEPT
                  !.results =
                      Append(@, log_result("Delete", "Delete Visitor",
                                 investigate_delete_capabilities(resp, stamp_404)))]
         /\ run' = [run EXCEPT
                      !.requests = @ \o Requests("Delete Visitor", <<"GET">>),
                      !.delete_probes = Append(@, resp)]
    /\ UNCHANGED <<analysis, previous>>
    /\ UNCHANGED notInvestigator

ReportResponses ==
    {TransportError, Response(200, TRUE, "list_nonempty"),
     Response(404, TRUE, "list_nonempty")}

(* The exchanges of one get_data_overview call: up to four, none after the *)
(* first that raises.                                                      *)
OverviewExchanges ==
    {resps \in UNION {[1..n -> ReportResponses] : n \in 1..4} :
        /\ \A i \in 1..(Len(resps) - 1) : make_request(resps[i]).kind = "value"
        /\ Len(resps) = 4 \/ make_request(resps[Len(resps)]).kind # "value"}

(* generate_investigation_report and the return of                         *)
(* run_complete_investigation: the data overview, the API status, the      *)
(* analysis and the report; an exception leaves the run.                   *)
GenerateReport ==
    /\ run.pc = "report"
    /\ LET analysed == analyze_permissions(investigator.results)
           summary == capabilities_summary(investigator.results)
           Report(api_status, data_overview) ==
               [made |-> TRUE,
                api_status |-> api_status,
                data_overview |-> data_overview,
                access_level |-> analysed.access_level,
                permission_breakdown |-> analysed.categories,
                total_operations_tested |-> Len(investigator.results),
                successful_operations |-> TotalSuccess(investigator.results),
                capabilities_summary |-> summary]
       IN \E overview \in OverviewExchanges, status \in ReportResponses :
            LET data_overview == get_data_overview(overview)
                api_status == ReportApiStatus(get_api_status(status))
            IN IF api_status.kind # "value"
               THEN /\ run' = [run EXCEPT !.pc = "raised", !.exception = api_status.kind]
                    /\ UNCHANGED <<analysis, previous>>
               ELSE /\ analysis' = analysed
                    /\ previous' = analysis
                    /\ run' = IF analysed.raised # "none"
                              THEN [run EXCEPT !.pc = "raised",
                                                !.exception = analysed.raised]
                              ELSE [run EXCEPT !.pc = "done",
                                      !.report = Report(api_status.value,
                                                        data_overview.value)]
    /\ UNCHANGED investigator
    /\ UNCHANGED notInvestigator

NextInvestigator ==
    \/ StartInvestigation
    \/ InvestigateRead
    \/ WriteVisitor
    \/ WriteAccount
    \/ WriteGuide
    \/ ManagementAggregation
    \/ ManagementTrack
    \/ AccountInfo
    \/ AdvancedBulk
    \/ AdvancedReport
    \/ DeleteProbe
    \/ GenerateReport

(* Result lists of every length up to MaxOps and every number of           *)
(* successes, the successes first or last, over three categories.          *)
Categories == <<"Guides", "Account", "Delete">>

MakeResults(successes, total, first) ==
    [i \in 1..total |->
        log_result(Categories[(i % 3) + 1], "operation",
                   IF first THEN i <= successes ELSE i > total - successes)]

ResultLists ==
    UNION {{MakeResults(s, t, first) : s \in 0..t, first \in BOOLEAN} : t \in 0..MaxOps}

(* analyze_permissions with the counts kept from one call to the next. *)
AnalyzePermissionsKeepingCounts ==
    /\ run.pc = "idle"
    /\ analysis' =
          LET again == analyze_permissions(investigator.results)
          IN IF analysis.called /\ again.raised = "none"
             THEN [again EXCEPT !.categories =
                     [c \in DOMAIN @ |->
                        [success |-> @[c].success + analysis.categories[c].success,
                         total   |-> @[c].total + analysis.categories[c].total]]]
             ELSE again
    /\ previous' = analysis
    /\ UNCHANGED <<investigator, run>>
    /\ UNCHANGED notInvestigator

(* analyze_permissions is called on the results collected so far. *)
AnalyzePermissions ==
    /\ run.pc = "idle"
    /\ analysis' = analyze_permissions(investigator.results)
    /\ previous' = analysis
    /\ UNCHANGED <<investigator, run>>
    /\ UNCHANGED notInvestigator

-----------------------------------------------------------------------------
(* Part 5: PendoAPIExplorer.test_endpoint (examples/api-examples/          *)
(* api_explorer.py) and RealPendoAPIExplorer.test_pendo_endpoint called on *)
(* their own.                                                              *)

endpoints_to_test ==
    <<"/api/v1/", "/api/v2/", "/v1/", "/v2/",
      "/api/v1/users", "/api/v1/accounts", "/api/v1/campaigns", "/api/v1/analytics",
      "/api/v1/feedback", "/api/v1/guides", "/api/v1/events", "/api/v1/features",
      "/api/v1/reports", "/api/v1/metadata",
      "/api/v1/visitors", "/api/v1/aggregates", "/api/v1/monitors", "/api/v1/segments",
      "/api/v1/applications", "/api/v1/featureFlags",
      "/users", "/accounts", "/campaigns", "/analytics", "/feedback", "/guides",
      "/events",
      "/", "/api", "/api/v1/info", "/api/v1/status", "/health", "/status", "/ping",
      "/integrations", "/api/v1/integrations", "/api/v1/webhooks">>

ApiPaths == SubSeq(endpoints_to_test, 1, Min(NumApiPaths, Len(endpoints_to_test)))

(* The RequestException the HTTP library raises: no connection (DNS,       *)
(* refused), a timeout, too many redirects.                                *)
TransportErrors ==
    {[kind |-> "error", exception |-> c] :
        c \in {"ConnectionError", "Timeout", "TooManyRedirects"}}

(* JSON objects with a 'data' key: a non-empty list, an empty list. *)
DataBodies == {"dict_data_list", "dict_data_empty"}

(* PendoAPIExplorer.test_endpoint catching Timeout only. *)
test_endpoint_timeout_only(method, endpoint, resp) ==
    IF resp.kind = "error"
    THEN IF resp.exception = "Timeout"
         THEN [endpoint |-> endpoint, method |-> method, success |-> FALSE,
               error |-> resp.exception]
         ELSE [raised |-> resp.exception]
    ELSE [endpoint |-> endpoint, method |-> method, status_code |-> resp.status,
          success |-> resp.status < 400]

(* PendoAPIExplorer.test_endpoint: the dict it returns. *)
test_endpoint(method, endpoint, resp) ==
    IF resp.kind = "error"
    THEN [endpoint |-> endpoint, method |-> method, success |-> FALSE,
          error |-> resp.exception]
    ELSE (IF resp.body # "empty" /\ resp.json_ct
          THEN IF resp.body \in JsonBodies \cup DataBodies
               THEN [sample_data |-> JsonValue(resp.body)]
                    @@ (IF resp.body \in DataBodies
                        THEN [has_data |-> resp.body = "dict_data_list"]
                        ELSE <<>>)
               ELSE [parse_error |-> "Could not parse JSON"]
          ELSE <<>>)
         @@ [endpoint |-> endpoint, method |-> method, status_code |-> resp.status,
             success |-> resp.status < 400,
             content_type |-> IF resp.json_ct THEN "application/json" ELSE "",
             content_length |-> TextLen(resp.body),
             sample_data |-> "None"]

(* self.discovered_endpoints after test_endpoint got this result *)
Discover(discovered_endpoints, result) ==
    IF HasKey(result, "success") /\ result.success
    THEN Append(discovered_endpoints, result.endpoint)
    ELSE discovered_endpoints

RealProbeResponses ==
    TransportErrors
    \cup {Response(200, TRUE, "dict_nonempty"), Response(200, TRUE, "invalid"),
          Response(200, TRUE, "invalid_long"), Response(204, FALSE, "empty"),
          Response(404, FALSE, "invalid_long"), Response(500, TRUE, "invalid_long")}

ApiProbeResponses ==
    RealProbeResponses
    \cup {Response(200, TRUE, "dict_data_list"), Response(200, TRUE, "dict_data_empty")}

ProbeInit ==
    /\ api_explorer = [discovered_endpoints |-> <<>>]
    /\ probe = [calls |-> 0, callee |-> "none", resp |-> [kind |-> "none"],
                result |-> <<>>]
    /\ exploration = [pc |-> "idle", i |-> 0, runs |-> 0, all_results |-> <<>>,
                      report |-> NoReport]

(* A call of RealPendoAPIExplorer.test_pendo_endpoint. *)
TestPendoEndpoint ==
    /\ probe.calls < MaxProbes
    /\ \E h \in DOMAIN Hosts, e \in DOMAIN Paths, method \in {"GET", "POST"},
          resp \in RealProbeResponses :
         probe' = [calls |-> probe.calls + 1, callee |-> "test_pendo_endpoint",
                   resp |-> resp,
                   result |-> test_pendo_endpoint(Hosts[h], Paths[e], method, resp)]
    /\ UNCHANGED api_explorer
    /\ UNCHANGED exploration
    /\ UNCHANGED notProbe

(* A call of PendoAPIExplorer.test_endpoint. *)
TestEndpoint ==
    /\ probe.calls < MaxProbes
    /\ \E e \in DOMAIN ApiPaths, method \in {"GET", "POST"}, resp \in ApiProbeResponses :
         LET result == test_endpoint(method, ApiPaths[e], resp)
         IN /\ probe' = [calls |-> probe.calls + 1, callee |-> "test_endpoint",
                         resp |-> resp, result |-> result]
            /\ api_explorer' = [api_explorer EXCEPT
                                  !.discovered_endpoints = Discover(@, result)]
    /\ UNCHANGED exploration
    /\ UNCHANGED notProbe

NextProbe ==
    \/ TestPendoEndpoint
    \/ TestEndpoint

-----------------------------------------------------------------------------
(* PendoAPIExplorer.run_full_exploration.                                  *)

post_endpoints ==
    <<"/api/v1/events", "/api/v1/feedback", "/api/v1/users", "/api/v1/accounts",
      "/api/v1/campaigns">>

PostPaths == SubSeq(post_endpoints, 1, Min(NumApiPaths, Len(post_endpoints)))

(* The exchanges of a run: a connection error, a 200 with a JSON object, a *)
(* 404 with a text.                                                        *)
ExplorationResponses ==
    {[kind |-> "error", exception |-> "ConnectionError"],
     Response(200, TRUE, "dict_nonempty"), Response(404, FALSE, "invalid_long")}

(* len(self.discovered_endpoints) *)
successful_endpoints(self, all_results) == Len(self.discovered_endpoints)

(* PendoAPIExplorer.generate_report: the report dict (timestamp, key       *)
(* prefix and base URL are left out); success_rate is kept as the two      *)
(* numbers it is the quotient of.                                          *)
generate_report(self, all_results) ==
    [made |-> TRUE,
     discovered_endpoints |-> self.discovered_endpoints,
     total_endpoints_tested |-> Len(all_results),
     successful_endpoints |-> successful_endpoints(self, all_results),
     success_rate |-> IF all_results # <<>>
                      THEN [of |-> successful_endpoints(self, all_results),
                            over |-> Len(all_results)]
                      ELSE [of |-> 0, over |-> 1],
     detailed_results |-> all_results]

(* run_full_exploration is called: all_results = []. *)
StartExploration ==
    /\ exploration.pc \in {"idle", "done"}
    /\ exploration.runs < MaxRuns
    /\ exploration' = [exploration EXCEPT !.pc = "explore_common_endpoints", !.i = 1,
                                          !.runs = @ + 1, !.all_results = <<>>]
    /\ UNCHANGED <<api_explorer, probe>>
    /\ UNCHANGED notProbe

(* One test_endpoint call of a run: the result goes to all_results, the    *)
(* endpoint of a success to discovered_endpoints.                          *)
ExplorationStep(method, paths, next) ==
    \E resp \in ExplorationResponses :
        LET result == test_endpoint(method, paths[exploration.i], resp)
        IN /\ api_explorer' = [api_explorer EXCEPT
                                 !.discovered_endpoints = Discover(@, result)]
           /\ exploration' = [exploration EXCEPT
                                !.all_results = Append(@, result),
                                !.i = IF exploration.i < Len(paths) THEN @ + 1 ELSE 1,
                                !.pc = IF exploration.i < Len(paths) THEN @ ELSE next]

(* explore_common_endpoints: one iteration. *)
ExploreCommonEndpoint ==
    /\ exploration.pc = "explore_common_endpoints"
    /\ ExplorationStep("GET", ApiPaths, "test_post_endpoints")
    /\ UNCHANGED probe
    /\ UNCHANGED notProbe

(* test_post_endpoints: one iteration. *)
TestPostEndpoint ==
    /\ exploration.pc = "test_post_endpoints"
    /\ ExplorationStep("POST", PostPaths, "generate_report")
    /\ UNCHANGED probe
    /\ UNCHANGED notProbe

(* The rest of run_full_exploration: test_authentication_methods and       *)
(* explore_api_structure, whose requests change nothing the report is made *)
(* of, and generate_report.                                                *)
GenerateExplorationReport ==
    /\ exploration.pc = "generate_report"
    /\ exploration' = [exploration EXCEPT
                         !.pc = "done",
                         !.report = generate_report(api_explorer,
                                                    exploration.all_results)]
    /\ UNCHANGED <<api_explorer, probe>>
    /\ UNCHANGED notProbe

NextExploration ==
    \/ StartExploration
    \/ ExploreCommonEndpoint
    \/ TestPostEndpoint
    \/ GenerateExplorationReport

-----------------------------------------------------------------------------
(* Part 6: the credential.  The construction of PendoAPIClient             *)
(* (src/pendo_client.py) and PendoAPIClientV2, main of                     *)
(* examples/api-examples/test_api_integration.py, and every place where    *)
(* the probing code writes the key to a report or prints it.  A string is  *)
(* the sequence of its characters.                                         *)

\* api_key[:10]
ShownLen == 10

KeyChars == {"a", "b"}

Dots == <<".", ".", ".">>

(* The credentials: two beginnings of ShownLen characters, every tail. *)
Secrets ==
    {start \o tail :
        start \in {[i \in 1..ShownLen |-> "a"],
                   [i \in 1..ShownLen |-> IF i % 2 = 0 THEN "a" ELSE "b"]},
        tail \in [1..TailLen -> KeyChars]}

(* An optional string: None / an unset variable, or a value. *)
Unset == [set |-> FALSE, value |-> <<>>]

Str(value) == [set |-> TRUE, value |-> value]

(* os.getenv(name, default) *)
getenv(variable, default) == IF variable.set THEN variable ELSE default

(* a or b, for optional strings *)
Or(a, b) == IF a.set /\ a.value # <<>> THEN a ELSE b

(* s[:n] *)
First(s, n) == SubSeq(s, 1, Min(n, Len(s)))

(* s[-n:] *)
Final(s, n) == SubSeq(s, Len(s) - Min(n, Len(s)) + 1, Len(s))

(* __init__ building the session before it looks at the key. *)
client_init_session_first(api_key, env, default_base_url) ==
    LET key == Or(api_key, getenv(env, Unset))
    IN IF ~key.set \/ key.value = <<>>
       THEN [raised |-> "ValueError", session |-> TRUE, api_key |-> key,
             base_url |-> default_base_url]
       ELSE [raised |-> "none", session |-> TRUE, api_key |-> key,
             base_url |-> default_base_url]

(* PendoAPIClient.__init__ and PendoAPIClientV2.__init__, which differ in  *)
(* the default base URL (and V2's User-Agent): the key from the argument   *)
(* or PENDO_API_KEY, ValueError when there is none, and then the session.  *)
client_init(api_key, env, default_base_url) ==
    LET key == Or(api_key, getenv(env, Unset))
    IN IF ~key.set \/ key.value = <<>>
       THEN [raised |-> "ValueError", session |-> FALSE, api_key |-> key,
             base_url |-> default_base_url]
       ELSE [raised |-> "none", session |-> TRUE, api_key |-> key,
             base_url |-> default_base_url]

PendoAPIClient_init(api_key, env) == client_init(api_key, env, "https://api.pendo.io")

PendoAPIClientV2_init(api_key, env) == client_init(api_key, env, "https://app.pendo.io")

(* PendoAPIClient._make_request: as PendoAPIClientV2's, the message taken  *)
(* from the 'error' key of the error body.                                 *)
make_request_v1(resp) ==
    IF resp.kind = "error" THEN Raise("PendoAPIError", FALSE)
    ELSE IF resp.status >= 400
         THEN IF resp.body \in ClientBodies
              THEN IF IsDict(resp.body) \/ resp.body = "dict_error"
                   THEN Raise("PendoAPIError", resp.status = 404)
                   ELSE Raise("AttributeError", FALSE)
              ELSE Raise("PendoAPIError", resp.status = 404)
         ELSE IF resp.body \in ClientBodies
              THEN Value(JsonValue(resp.body))
              ELSE Raise("PendoAPIError", FALSE)

(* PendoAPIClient.test_connection: True, False, or the exception that is   *)
(* not a PendoAPIError.                                                    *)
test_connection_v1(resp) ==
    LET out == make_request_v1(resp)
    IN IF out.kind = "value" THEN Value("True")
       ELSE IF out.kind = "PendoAPIError" THEN Value("False")
       ELSE out

(* test_api_integration.test_api_connection: client.test_connection()      *)
(* with every exception caught.                                            *)
test_api_connection(resp) == make_request_v1(resp).kind = "value"

(* The places where the key is written or printed, and what of it:         *)
(* "start" for key[:10] + "...", "ends" for key[:10] + "..." + key[-10:],  *)
(* "whole" for the key itself.                                             *)
KeyOutputs ==
    {[by |-> "WriteAccessAnalyzer.__init__ (log)", shows |-> "start"],
     [by |-> "WriteAccessAnalyzer.generate_security_report", shows |-> "start"],
     [by |-> "WriteAccessAnalyzer.generate_comprehensive_analysis_report",
      shows |-> "start"],
     [by |-> "RealPendoAPIExplorer.generate_comprehensive_report", shows |-> "start"],
     [by |-> "RealPendoAPIExplorer.run_complete_exploration (print)", shows |-> "start"],
     [by |-> "PendoAPIExplorer.generate_report", shows |-> "start"],
     [by |-> "PendoEngageAPIExplorer.generate_comprehensive_report", shows |-> "start"],
     [by |-> "PendoEngageAPIExplorer.run_complete_exploration (print)",
      shows |-> "start"],
     [by |-> "PendoAccessInvestigator.generate_investigation_report", shows |-> "start"],
     [by |-> "PendoAccessInvestigator.run_complete_investigation (print)",
      shows |-> "start"],
     [by |-> "test_api_integration.main (print)", shows |-> "start"],
     [by |-> "test_api_integration.generate_report", shows |-> "whole"],
     [by |-> "test_pendo_api.main (print)", shows |-> "ends"]}

(* The text written for a key. *)
Shown(shows, key) ==
    IF shows = "start" THEN First(key, ShownLen) \o Dots
    ELSE IF shows = "ends" THEN First(key, ShownLen) \o Dots \o Final(key, ShownLen)
    ELSE key

NoOutput == [made |-> FALSE]

NoClient == [callee |-> "none"]

ConfigInit ==
    /\ environment \in {[PENDO_API_KEY |-> k] :
                          k \in {Unset, Str(<<>>)} \cup {Str(s) : s \in Secrets}}
    /\ client = NoClient
    /\ outputs = NoOutput

ApiKeyArguments == {Unset, Str(<<>>), Str([i \in 1..(ShownLen + TailLen) |-> "b"])}

(* PendoAPIClient(api_key) *)
ConstructClient ==
    /\ \E api_key \in ApiKeyArguments :
         client' = [callee |-> "PendoAPIClient", argument |-> api_key, requests |-> 0,
                    construction |-> PendoAPIClient_init(api_key, environment.PENDO_API_KEY)]
    /\ UNCHANGED <<environment, outputs>>
    /\ UNCHANGED notConfig

(* PendoAPIClientV2(api_key) *)
ConstructClientV2 ==
    /\ \E api_key \in ApiKeyArguments :
         client' = [callee |-> "PendoAPIClientV2", argument |-> api_key, requests |-> 0,
                    construction |-> PendoAPIClientV2_init(api_key, environment.PENDO_API_KEY)]
    /\ UNCHANGED <<environment, outputs>>
    /\ UNCHANGED notConfig

TestGroups == {"campaigns", "analytics", "feedback", "metadata", "guides"}

ConnectionResponses ==
    {TransportError, Response(200, TRUE, "dict_nonempty"),
     Response(401, TRUE, "dict_nonempty"), Response(404, TRUE, "list_nonempty")}

(* test_api_integration.main: the client, the connection test, the five    *)
(* test groups (each passes, fails, or raises something that is no         *)
(* PendoAPIError) and the report.  requests counts the requests up to the  *)
(* connection test.  The script is a process of its own: it starts with no *)
(* client and nothing written.                                             *)
IntegrationMain ==
    /\ client = NoClient
    /\ outputs = NoOutput
    /\ LET construction == PendoAPIClient_init(Unset, environment.PENDO_API_KEY)
           Run(requests, ended) ==
               [callee |-> "test_api_integration.main", argument |-> Unset,
                requests |-> requests, construction |-> construction, ended |-> ended]
       IN IF construction.raised # "none"
          THEN /\ client' = Run(0, "no client")
               /\ UNCHANGED outputs
          ELSE \E resp \in ConnectionResponses :
                 IF ~test_api_connection(resp)
                 THEN /\ client' = Run(1, "no connection")
                      /\ UNCHANGED outputs
                 ELSE \E results \in [TestGroups -> {"passed", "failed", "raised"}] :
                        IF \E g \in TestGroups : results[g] = "raised"
                        THEN /\ client' = Run(1, "raised")
                             /\ UNCHANGED outputs
                        ELSE /\ client' = Run(1, "report")
                             /\ outputs' =
                                  [made |-> TRUE,
                                   by |-> "test_api_integration.generate_report",
                                   text |-> getenv(environment.PENDO_API_KEY,
                                                   Str(<<"Not configured">>)).value]
    /\ UNCHANGED environment
    /\ UNCHANGED notConfig

(* One of the reports is built, or one of the lines printed, by an object  *)
(* holding the key of the environment.                                     *)
ShowKey ==
    /\ environment.PENDO_API_KEY.set
    /\ environment.PENDO_API_KEY.value # <<>>
    /\ \E o \in KeyOutputs :
         outputs' = [made |-> TRUE, by |-> o.by,
                     text |-> Shown(o.shows, environment.PENDO_API_KEY.value)]
    /\ UNCHANGED <<environment, client>>
    /\ UNCHANGED notConfig

NextConfig ==
    \/ ConstructClient
    \/ ConstructClientV2
    \/ IntegrationMain
    \/ ShowKey

-----------------------------------------------------------------------------
(* Part 7: test_connection of PendoAPIClient and PendoAPIClientV2, called  *)
(* on clients built with a key.                                            *)

ConnectionInit == connection = <<>>

(* What a test_connection call came to: the exchange of its probe request  *)
(* and the value returned or the exception raised.                         *)
ConnectionCall(class, resp, out) == [class |-> class, resp |-> resp, out |-> out]

(* PendoAPIClient.test_connection is called. *)
TestConnectionV1 ==
    /\ Len(connection) < MaxProbes
    /\ \E resp \in ClientResponses :
         connection' = Append(connection,
                              ConnectionCall("PendoAPIClient", resp,
                                             test_connection_v1(resp)))
    /\ UNCHANGED notConnection

(* PendoAPIClientV2.test_connection is called. *)
TestConnection ==
    /\ Len(connection) < MaxProbes
    /\ \E resp \in ClientResponses :
         connection' = Append(connection,
                              ConnectionCall("PendoAPIClientV2", resp,
                                             test_connection(resp)))
    /\ UNCHANGED notConnection

NextConnection ==
    \/ TestConnectionV1
    \/ TestConnection

-----------------------------------------------------------------------------
(* Part 8: AutoCommitManager.auto_commit_and_push (scripts/auto_commit.py) *)
(* and the git commands it runs.                                           *)

(* How a git command run by run_git_command ends: exit status 0, a         *)
(* non-zero exit status (subprocess.run with check=True raises             *)
(* CalledProcessError, which run_git_command re-raises), or no process at  *)
(* all (subprocess.run raises an OSError such as FileNotFoundError when    *)
(* repo_path does not exist or git is not installed).                      *)
GitOutcomes == {"ok", "CalledProcessError", "OSError"}

(* git commit ends like any command; a non-zero exit status comes with a   *)
(* stderr text that holds "nothing to commit" or does not.                 *)
CommitOutcomes == GitOutcomes \cup {"CalledProcessError: nothing to commit"}

(* A git command that was run and how it ended. *)
Git(command, outcome) == [command |-> command, outcome |-> outcome]

Returns(v) == [kind |-> "value", value |-> v]

Raises(e) == [kind |-> "raised", value |-> e]

NotReturned == [kind |-> "none", value |-> "None"]

(* What the three commands of check_git_status come to. *)
StatusInputs ==
    [rev : GitOutcomes, status : GitOutcomes, has_changes : BOOLEAN,
     branch : GitOutcomes]

NotAGitRepo == [is_git_repo |-> FALSE, has_changes |-> FALSE]

(* check_git_status: rev-parse, status and branch in turn.  The first one  *)
(* that exits non-zero makes the answer "not a git repository"; an OSError *)
(* is not caught.                                                          *)
check_git_status(o) ==
    LET NoStatus(ran, outcome) ==
            [ran |-> ran,
             out |-> IF outcome = "OSError" THEN Raises("OSError")
                     ELSE Returns(NotAGitRepo)]
        rev == Git("rev-parse", o.rev)
        status == Git("status", o.status)
        branch == Git("branch", o.branch)
    IN IF o.rev # "ok" THEN NoStatus(<<rev>>, o.rev)
       ELSE IF o.status # "ok" THEN NoStatus(<<rev, status>>, o.status)
       ELSE IF o.branch # "ok" THEN NoStatus(<<rev, status, branch>>, o.branch)
       ELSE [ran |-> <<rev, status, branch>>,
             out |-> Returns([is_git_repo |-> TRUE,
                              has_changes |-> o.has_changes])]

(* add_all_changes: git add; False on a non-zero exit status. *)
add_all_changes(outcome) ==
    [ran |-> <<Git("add", outcome)>>,
     out |-> IF outcome = "ok" THEN Returns(TRUE)
             ELSE IF outcome = "CalledProcessError" THEN Returns(FALSE)
             ELSE Raises("OSError")]

CommitOut(outcome) ==
    IF outcome = "ok" THEN Returns(TRUE)
    ELSE IF outcome = "CalledProcessError: nothing to commit" THEN Returns(TRUE)
    ELSE IF outcome = "CalledProcessError" THEN Returns(FALSE)
    ELSE Raises("OSError")

(* commit_changes: without a message the status is read for one, and       *)
(* status['changed_files'] is a KeyError when the answer is "not a git     *)
(* repository"; then git commit.  A non-zero exit status whose stderr      *)
(* holds "nothing to commit" counts as True.                               *)
commit_changes(message, o, outcome) ==
    LET status == check_git_status(o)
        commit == [ran |-> <<Git("commit", outcome)>>, out |-> CommitOut(outcome)]
    IN IF message THEN commit
       ELSE IF status.out.kind = "raised" THEN status
       ELSE IF ~status.out.value.is_git_repo
            THEN [ran |-> status.ran, out |-> Raises("KeyError")]
       ELSE [ran |-> status.ran \o commit.ran, out |-> commit.out]

(* push_to_github: the status for the branch, then git push. *)
push_to_github(o, outcome) ==
    LET status == check_git_status(o)
    IN IF status.out.kind = "raised" THEN status
       ELSE IF ~status.out.value.is_git_repo
            THEN [ran |-> status.ran, out |-> Returns(FALSE)]
       ELSE [ran |-> status.ran \o <<Git("push", outcome)>>,
             out |-> IF outcome = "ok" THEN Returns(TRUE)
                     ELSE IF outcome = "CalledProcessError" THEN Returns(FALSE)
                     ELSE Raises("OSError")]

(* What repo_path names: a git repository, a directory that is none, or   *)
(* nothing (subprocess.run then raises FileNotFoundError for its cwd).     *)
RepoPaths == {"repository", "directory", "missing"}

(* What rev-parse can come to under a path. *)
RevParseOutcomes(path) ==
    IF path = "missing" THEN {"OSError"}
    ELSE IF path = "directory" THEN {"CalledProcessError"}
    ELSE GitOutcomes

CommitterInit ==
    committer = [pc |-> "idle", path |-> "repository", message |-> FALSE,
                 status |-> NotReturned,
                 ran |-> <<>>, returned |-> NotReturned, commit_log |-> 0,
                 runs |-> 0]

(* The call ends: with the value or exception of the step when the step    *)
(* did not return True, otherwise at pc next.                              *)
AfterStep(step, next, result, logged) ==
    LET went_well == step.out.kind = "value" /\ step.out.value
    IN committer' = [committer EXCEPT
           !.ran = @ \o step.ran,
           !.commit_log = @ + logged,
           !.pc = IF went_well THEN next ELSE "idle",
           !.returned = IF went_well THEN result ELSE step.out]

(* auto_commit_and_push is called: the status is read. *)
AutoCommitAndPush ==
    /\ committer.pc = "idle"
    /\ committer.runs < MaxRuns
    /\ \E path \in RepoPaths, message \in BOOLEAN :
       \E o \in {s \in StatusInputs : s.rev \in RevParseOutcomes(path)} :
         LET status == check_git_status(o)
             goes_on == /\ status.out.kind = "value"
                        /\ status.out.value.is_git_repo
                        /\ status.out.value.has_changes
         IN committer' = [committer EXCEPT
                !.pc = IF goes_on THEN "add" ELSE "idle",
                !.path = path,
                !.message = message,
                !.status = status.out,
                !.ran = status.ran,
                !.runs = @ + 1,
                !.returned = IF status.out.kind = "raised" THEN status.out
                             ELSE IF ~status.out.value.is_git_repo
                                  THEN Returns(FALSE)
                             ELSE IF ~status.out.value.has_changes
                                  THEN Returns(TRUE)
                             ELSE NotReturned]
    /\ UNCHANGED notCommitter

(* The workflow adds all changes. *)
AddAllChanges ==
    /\ committer.pc = "add"
    /\ \E outcome \in GitOutcomes :
         AfterStep(add_all_changes(outcome), "commit", NotReturned, 0)
    /\ UNCHANGED notCommitter

(* The workflow commits; a commit that git made is logged. *)
CommitChanges ==
    /\ committer.pc = "commit"
    /\ \E o \in StatusInputs, outcome \in CommitOutcomes :
         LET step == commit_changes(committer.message, o, outcome)
         IN AfterStep(step, "push", NotReturned,
                      IF \E i \in DOMAIN step.ran : step.ran[i] = Git("commit", "ok")
                      THEN 1 ELSE 0)
    /\ UNCHANGED notCommitter

(* The workflow pushes and returns. *)
PushToGithub ==
    /\ committer.pc = "push"
    /\ \E o \in StatusInputs, outcome \in GitOutcomes :
         AfterStep(push_to_github(o, outcome), "idle", Returns(TRUE), 0)
    /\ UNCHANGED notCommitter

NextCommitter ==
    \/ AutoCommitAndPush
    \/ AddAllChanges
    \/ CommitChanges
    \/ PushToGithub

-----------------------------------------------------------------------------
(* The specifications: one per part. *)

(* The environment the other parts run in: a key is set. *)
DefaultConfigInit ==
    /\ environment = [PENDO_API_KEY |-> Str([i \in 1..(ShownLen + TailLen) |-> "a"])]
    /\ client = NoClient
    /\ outputs = NoOutput

Init ==
    /\ AnalyzerInit
    /\ ExplorerInit
    /\ EngageInit
    /\ InvestigatorInit
    /\ ProbeInit
    /\ ConnectionInit
    /\ CommitterInit
    /\ DefaultConfigInit

SpecAnalyzer == Init /\ [][NextAnalyzer]_vars

SpecExplorer == Init /\ [][NextExplorer]_vars

SpecEngage == Init /\ [][NextEngage]_vars

SpecInvestigator == Init /\ [][NextInvestigator]_vars

SpecProbe == Init /\ [][NextProbe]_vars

SpecFollowUp == Init /\ [][NextFollowUp]_vars

SpecSecurityReport == Init /\ [][NextSecurityReport]_vars

SpecConnection == Init /\ [][NextConnection]_vars

SpecExploration == Init /\ [][NextExploration]_vars

SpecDelete == Init /\ [][InvestigateDeleteCapabilities]_vars

SpecCommitter == Init /\ [][NextCommitter]_vars

(* Any environment, with or without a key. *)
InitConfig ==
    /\ AnalyzerInit
    /\ ExplorerInit
    /\ EngageInit
    /\ InvestigatorInit
    /\ ProbeInit
    /\ ConnectionInit
    /\ CommitterInit
    /\ ConfigInit

SpecConfig == InitConfig /\ [][NextConfig]_vars

(* The run is one thread of control and every request ends (a response, an *)
(* error or the timeout of 15 s): a step that can be taken is taken.       *)
SpecInvestigatorFair == SpecInvestigator /\ WF_vars(NextInvestigator)

(* An investigator holding any result list, on which analyze_permissions   *)
(* is called.                                                              *)
InitClassifier ==
    /\ AnalyzerInit
    /\ ExplorerInit
    /\ EngageInit
    /\ ProbeInit
    /\ ConnectionInit
    /\ CommitterInit
    /\ DefaultConfigInit
    /\ investigator \in {[results |-> r] : r \in ResultLists}
    /\ run = [pc |-> "idle", i |-> 0, report |-> NoReport, exception |-> "none",
              all_failed |-> TRUE, requests |-> <<>>, delete_probes |-> <<>>]
    /\ analysis = NotAnalyzed
    /\ previous = NotAnalyzed

SpecClassifier == InitClassifier /\ [][AnalyzePermissions]_vars

-----------------------------------------------------------------------------
(* Properties of WriteAccessAnalyzer, checked under SpecAnalyzer. *)

(* C1: every request handed to session.request has a method that is GET,   *)
(* OPTIONS or HEAD once upper-cased, and a call whose method is outside    *)
(* the allow-list raises without any exchange taking place.                *)
C1_OnlyReadMethodsReachNetwork ==
    /\ \A i \in DOMAIN sent : Upper(sent[i]) \in allowed_methods
    /\ (last.made /\ Upper(last.method) \notin allowed_methods)
          => (last.raised /\ last.resp = NoExchange)

(* A lower-case post was rejected after two requests had gone out. *)
C1_Witness ==
    /\ last.made /\ last.raised
    /\ last.method = <<"p","o","s","t">>
    /\ Len(sent) = 2

(* C2: no entry of security_log records a request whose method is, case    *)
(* insensitively, POST, PUT, DELETE or PATCH; every entry is the record of *)
(* the request sent at the same position.                                  *)
C2_NoMutatingAuditEntry ==
    /\ \A i \in DOMAIN security_log : Upper(security_log[i].method) \notin blocked_methods
    /\ Len(security_log) = Len(sent)
    /\ \A i \in DOMAIN security_log : security_log[i].method = sent[i]

(* A mixed-case Delete was attempted while the log held entries. *)
C2_Witness ==
    /\ last.made
    /\ last.method = <<"D","e","l","e","t","e">>
    /\ Len(security_log) >= 1
    /\ calls = 3

(* C3: security_log has one entry per safe_read_only_request call. *)
C3_AuditCompleteness == Len(security_log) = calls

(* C4: a call with a method outside the allow-list ends in SecurityError   *)
(* and leaves an audit entry for that method marked unsuccessful.          *)
C4_BlockedIsAudited ==
    (last.made /\ Upper(last.method) \notin allowed_methods)
       => /\ last.raised
          /\ security_log # <<>>
          /\ Last(security_log).method = last.method
          /\ ~Last(security_log).success

(* C9: the capability level stored for an endpoint is HIGH iff the GET     *)
(* succeeded with a non-empty JSON array or object, MEDIUM iff it          *)
(* succeeded with empty or absent data, LOW iff the GET failed and the     *)
(* HEAD succeeded, NONE otherwise.  Stated for GET exchanges that failed   *)
(* or carried a parsed JSON body.                                          *)
IndicatorsJustStored ==
    /\ frame.pc = "test_write_capability_indicators"
    /\ frame.step = "options"
    /\ frame.i > 1
    /\ last.made /\ ~last.raised
    /\ Len(security_log) >= 3

StoredLevel ==
    frame.results[Catalog("test_write_capability_indicators")[frame.i - 1][1]].capability_level

ClaimedLevel ==
    LET get_ok  == Last(security_log).success
        head_ok == security_log[Len(security_log) - 1].success
        nonempty == last.resp.body \in {"list_nonempty", "dict_nonempty"}
    IN IF get_ok /\ nonempty THEN "HIGH"
       ELSE IF get_ok THEN "MEDIUM"
       ELSE IF head_ok THEN "LOW"
       ELSE "NONE"

C9_CapabilityHeuristic ==
    (/\ IndicatorsJustStored
     /\ last.resp.kind = "response" => (last.resp.json_ct /\ last.resp.body \in JsonBodies))
       => StoredLevel = ClaimedLevel

-----------------------------------------------------------------------------
(* Properties of RealPendoAPIExplorer.test_real_pendo_endpoints, checked   *)
(* under SpecExplorer.                                                     *)

(* C5: a transport error in some attempts does not abort the scan: no      *)
(* exception leaves test_real_pendo_endpoints, and the list it returns has *)
(* one result for each attempt made, those that failed included.           *)
C5_ScanSurvivesTransportErrors ==
    /\ scan.pc # "KeyError"
    /\ scan.pc = "returned" =>
          /\ Len(scan.returned) = Len(scan.attempts)
          /\ Len(scan.attempts) = Len(Hosts) * Len(Paths)

(* C6: with a response to every attempt, the list returned has one result  *)
(* for each (base URL, endpoint) pair and no other.                        *)
C6_OneOutcomePerAttempt ==
    (/\ scan.pc = "returned"
     /\ \A i \in DOMAIN scan.attempts : ~scan.attempts[i].error)
       => /\ Len(scan.returned) = Len(Hosts) * Len(Paths)
          /\ \A h \in DOMAIN Hosts, e \in DOMAIN Paths :
                Cardinality({i \in DOMAIN scan.returned :
                                /\ scan.returned[i].base_url = Hosts[h]
                                /\ scan.returned[i].endpoint = Paths[e]}) = 1

(* The scan returned, the first base URL without a working endpoint and    *)
(* the second with one.                                                    *)
C6_Witness ==
    /\ scan.pc = "returned"
    /\ explorer.working_base_url = Hosts[2]
    /\ \E i \in DOMAIN scan.returned : ~scan.returned[i].success

(* C20: the audit entry of an allowed request has success true exactly     *)
(* when a response came back with a status code below 400.                 *)
C20_SuccessIsStatusBelow400 ==
    (last.made /\ ~last.raised /\ last.resp.kind # "none") =>
        Last(security_log).success =
            (last.resp.kind = "response" /\ last.resp.status < 400)

(* C13: working_base_url is the first base URL, in base_urls order, that   *)
(* gave a successful outcome; once the scan has ended it is set exactly    *)
(* when some base URL succeeded, and the report's working_base_url is that *)
(* base URL, or None when none succeeded.                                  *)
Outcomes == explorer.results \o scan.base_url_results

Succeeded(h) ==
    \E i \in DOMAIN Outcomes : Outcomes[i].base_url = Hosts[h] /\ Outcomes[i].success

FirstWorking(h) == Succeeded(h) /\ \A g \in 1..(h - 1) : ~Succeeded(g)

C13_HostPinning ==
    /\ explorer.working_base_url # "unset" =>
          \E h \in DOMAIN Hosts :
              explorer.working_base_url = Hosts[h] /\ FirstWorking(h)
    /\ scan.pc \in {"returned", "KeyError"} =>
          \A h \in DOMAIN Hosts :
              FirstWorking(h) => explorer.working_base_url = Hosts[h]
    /\ scan.report.made =>
          /\ \A h \in DOMAIN Hosts :
                FirstWorking(h) => scan.report.working_base_url = Hosts[h]
          /\ (\A h \in DOMAIN Hosts : ~Succeeded(h)) =>
                scan.report.working_base_url = "None"

-----------------------------------------------------------------------------
(* Properties of PendoEngageAPIExplorer.test_engage_api_authentication,    *)
(* checked under SpecEngage.                                               *)

(* C7: the list returned has one result for each attempt made, that is     *)
(* one for every authentication variant and endpoint.                      *)
C7_OutcomeForEveryAuthVariant ==
    engage.pc = "returned" =>
       /\ Len(engage.returned) = Len(engage.attempts)
       /\ Len(engage.returned) = Len(AuthMethods) * Len(EngagePaths)


(* C16: the request of each attempt carries the credentials its own        *)
(* authentication variant names, headers and query parameters, and no      *)
(* other.                                                                  *)
Variant(name) == CHOOSE a \in {AuthMethods[k] : k \in DOMAIN AuthMethods} : a.name = name

C16_OwnCredentialsOnly ==
    \A i \in DOMAIN engage.attempts :
        /\ engage.attempts[i].headers = Variant(engage.attempts[i].auth_method).headers
        /\ engage.attempts[i].params = Variant(engage.attempts[i].auth_method).params

-----------------------------------------------------------------------------
(* C8: for a non-empty result list with s successes out of t,              *)
(* analyze_permissions returns FULL ACCESS when 100*s/t >= 75, MODERATE    *)
(* ACCESS when >= 50, LIMITED ACCESS when >= 25 and MINIMAL ACCESS          *)
(* otherwise, each band inclusive at its lower bound: 75/100 is FULL,      *)
(* 74/100 and 50/100 MODERATE, 49/100 and 25/100 LIMITED, 24/100 and 0/100 *)
(* MINIMAL.  The bands are stated on s and t: 100*s/t >= 75 is 4*s >= 3*t. *)
Successes == Cardinality({i \in DOMAIN investigator.results :
                            investigator.results[i].success})

Total == Len(investigator.results)

C8_VerdictThresholds ==
    (analysis.called /\ Total > 0) =>
        /\ analysis.raised = "none"
        /\ analysis.access_level = "FULL ACCESS" <=> 4 * Successes >= 3 * Total
        /\ analysis.access_level = "MODERATE ACCESS"
              <=> (2 * Successes >= Total /\ 4 * Successes < 3 * Total)
        /\ analysis.access_level = "LIMITED ACCESS"
              <=> (4 * Successes >= Total /\ 2 * Successes < Total)
        /\ analysis.access_level = "MINIMAL ACCESS" <=> 4 * Successes < Total
        /\ Total = 100 =>
              /\ Successes = 75 => analysis.access_level = "FULL ACCESS"
              /\ Successes \in {74, 50} => analysis.access_level = "MODERATE ACCESS"
              /\ Successes \in {49, 25} => analysis.access_level = "LIMITED ACCESS"
              /\ Successes \in {24, 0} => analysis.access_level = "MINIMAL ACCESS"

C8_Witness ==
    /\ analysis.called
    /\ Total = 100
    /\ Successes = 75
    /\ analysis.access_level = "FULL ACCESS"

(* C10: run_complete_investigation, once called, always ends with a        *)
(* report, whatever each request does; no exception reaches the caller,    *)
(* and when every request failed the report's access level is MINIMAL      *)
(* ACCESS.                                                                 *)
C10_AlwaysEndsWithReport ==
    /\ (run.pc = "read") ~> (run.pc = "done")
    /\ [](run.pc # "raised" /\ run.exception = "none")
    /\ [](run.pc = "done" =>
            /\ run.report.made
            /\ run.report.total_operations_tested = Total
            /\ run.all_failed => run.report.access_level = "MINIMAL ACCESS")

C10_Witness ==
    /\ run.pc = "done"
    /\ run.all_failed
    /\ run.report.made
    /\ run.report.access_level = "MINIMAL ACCESS"
    /\ run.report.api_status = "not connected"
    /\ run.report.data_overview = "dict_error"


(* C11: analyze_permissions gives a per-category table and a verdict for   *)
(* any list of results collected before an interruption, the empty list    *)
(* included.                                                               *)
AccessLevels == {"FULL ACCESS", "MODERATE ACCESS", "LIMITED ACCESS", "MINIMAL ACCESS"}

C11_PartialResultsTolerance ==
    analysis.called =>
        /\ analysis.raised = "none"
        /\ analysis.access_level \in AccessLevels
        /\ DOMAIN analysis.categories =
              {investigator.results[i].category : i \in DOMAIN investigator.results}


(* C14: in the table of analyze_permissions every category of the results *)
(* has its row, total is the number of results of the category and success *)
(* the number of the successful ones, so success <= total and the totals   *)
(* add up to len(results); three successful results in three categories    *)
(* give 1/1 for each and FULL ACCESS.                                      *)
RECURSIVE SumTotals(_, _)
SumTotals(table, rows) ==
    IF rows = {} THEN 0
    ELSE LET c == CHOOSE c \in rows : TRUE
         IN table[c].total + SumTotals(table, rows \ {c})

InCategory(c) == {i \in DOMAIN investigator.results : investigator.results[i].category = c}

C14_PerCategoryTable ==
    (analysis.called /\ Total > 0) =>
        /\ DOMAIN analysis.categories =
              {investigator.results[i].category : i \in DOMAIN investigator.results}
        /\ \A c \in DOMAIN analysis.categories :
              /\ analysis.categories[c].total = Cardinality(InCategory(c))
              /\ analysis.categories[c].success =
                    Cardinality({i \in InCategory(c) : investigator.results[i].success})
              /\ analysis.categories[c].success <= analysis.categories[c].total
        /\ SumTotals(analysis.categories, DOMAIN analysis.categories) = Total
        /\ (Total = 3 /\ Successes = 3) =>
              /\ \A c \in DOMAIN analysis.categories :
                    analysis.categories[c] = [success |-> 1, total |-> 1]
              /\ analysis.access_level = "FULL ACCESS"

C14_Witness ==
    /\ analysis.called
    /\ Total = 3
    /\ Successes = 3
    /\ Cardinality(DOMAIN analysis.categories) = 3
    /\ analysis.categories["Delete"] = [success |-> 1, total |-> 1]

-----------------------------------------------------------------------------
(* Properties of test_pendo_endpoint and test_endpoint, checked under      *)
(* SpecProbe.                                                              *)

(* C12: for every RequestException of the HTTP library (no connection, a   *)
(* timeout, ...), test_pendo_endpoint and test_endpoint return a result    *)
(* with success false and an error detail; nothing is raised.              *)
C12_TransportErrorIsAnOutcome ==
    (probe.calls > 0 /\ probe.resp.kind = "error") =>
        /\ ~HasKey(probe.result, "raised")
        /\ HasKey(probe.result, "success") /\ probe.result.success = FALSE
        /\ HasKey(probe.result, "error")
        /\ HasKey(probe.result, "endpoint") /\ HasKey(probe.result, "method")

C12_Witness ==
    /\ probe.calls = 2
    /\ probe.callee = "test_endpoint"
    /\ probe.resp.kind = "error" /\ probe.resp.exception = "ConnectionError"
    /\ probe.result.success = FALSE


(* C19: for a response that declares JSON and whose body does not parse,   *)
(* test_pendo_endpoint returns its result all the same: success by the     *)
(* status code alone, no parsed data, and as the preview the first 200     *)
(* characters of the body.                                                 *)
C19_ParseFailureIsNotFatal ==
    (/\ probe.callee = "test_pendo_endpoint"
     /\ probe.resp.kind = "response"
     /\ probe.resp.json_ct
     /\ probe.resp.body \in {"invalid", "invalid_long"})
       => /\ ~HasKey(probe.result, "error")
          /\ probe.result.status_code = probe.resp.status
          /\ probe.result.success = (probe.resp.status < 400)
          /\ ~HasKey(probe.result, "sample_data")
          /\ HasKey(probe.result, "text_preview")
          /\ probe.result.text_preview.of = probe.resp.body
          /\ probe.result.text_preview.len <= 200
          /\ probe.resp.body = "invalid" =>
                probe.result.text_preview.len = ShortTextLen
          /\ probe.resp.body = "invalid_long" =>
                probe.result.text_preview.len = 200

C19_Witness ==
    /\ probe.callee = "test_pendo_endpoint"
    /\ probe.resp = Response(500, TRUE, "invalid_long")
    /\ ~probe.result.success
    /\ probe.result.text_preview.len = 200

-----------------------------------------------------------------------------
(* Properties of the credential's handling, checked under SpecConfig.      *)

(* C17: whatever report field or printed line shows the credential holds   *)
(* its first 10 characters followed by "..." and nothing else of it.       *)
C17_CredentialRedacted ==
    (/\ outputs.made
     /\ environment.PENDO_API_KEY.set
     /\ environment.PENDO_API_KEY.value # <<>>)
       => outputs.text = First(environment.PENDO_API_KEY.value, 10) \o <<".", ".", ".">>

(* C18: with no api_key argument and no PENDO_API_KEY value, constructing  *)
(* PendoAPIClient or PendoAPIClientV2 raises ValueError with no session    *)
(* created, and test_api_integration.main ends without a request, a client *)
(* or a report.                                                            *)
NoKey(optional) == ~optional.set \/ optional.value = <<>>

C18_MissingCredentialIsFatal ==
    (/\ client.callee # "none"
     /\ NoKey(client.argument)
     /\ NoKey(environment.PENDO_API_KEY))
       => /\ client.construction.raised = "ValueError"
          /\ ~client.construction.session
          /\ client.requests = 0
          /\ client.callee = "test_api_integration.main" =>
                client.ended = "no client" /\ ~outputs.made

C18_Witness ==
    /\ client.callee = "test_api_integration.main"
    /\ ~environment.PENDO_API_KEY.set
    /\ client.construction.raised = "ValueError"
    /\ client.requests = 0


-----------------------------------------------------------------------------
(* The order of the scan, checked under SpecExplorer.                      *)

(* The base URL and the endpoint of the i-th attempt of a scan that takes  *)
(* the base URLs in list order and, for each, the endpoints in list order. *)
HostOfAttempt(i) == Hosts[((i - 1) \div Len(Paths)) + 1]

PathOfAttempt(i) == Paths[((i - 1) % Len(Paths)) + 1]

(* C21: test_real_pendo_endpoints makes its attempts base URL by base URL  *)
(* in list order and, within a base URL, endpoint by endpoint in list      *)
(* order; the list it returns has the results in the order the attempts    *)
(* were made, so every result of a base URL precedes every result of the   *)
(* next.                                                                   *)
C21_DeterministicOrder ==
    /\ \A i \in DOMAIN scan.attempts :
          /\ scan.attempts[i].base_url = HostOfAttempt(i)
          /\ scan.attempts[i].endpoint = PathOfAttempt(i)
    /\ scan.pc = "returned" =>
          /\ Len(scan.returned) = Len(scan.attempts)
          /\ \A i \in DOMAIN scan.returned :
                /\ scan.returned[i].base_url = scan.attempts[i].base_url
                /\ scan.returned[i].endpoint = scan.attempts[i].endpoint
          /\ \A i, j \in DOMAIN scan.returned :
                (\E g, h \in DOMAIN Hosts :
                    /\ g < h
                    /\ scan.returned[i].base_url = Hosts[g]
                    /\ scan.returned[j].base_url = Hosts[h]) => i < j

(* The scan returned the results of at least two base URLs with at least   *)
(* two endpoints each.                                                     *)
C21_Witness ==
    /\ scan.pc = "returned"
    /\ Len(Hosts) > 1 /\ Len(Paths) > 1
    /\ Len(scan.returned) = Len(Hosts) * Len(Paths)

(* C22: every request of the follow-up probes goes to the working base     *)
(* URL the scan kept; a probe called without a working base URL returns    *)
(* the empty list and makes no request; run_complete_exploration calls no  *)
(* follow-up probe when the scan kept no base URL.                         *)
C22_FollowUpsOnlyOnPinnedHost ==
    /\ \A i \in DOMAIN followup.requests :
          /\ explorer.working_base_url # "unset"
          /\ followup.requests[i].base_url = explorer.working_base_url
          /\ \E h \in DOMAIN Hosts :
                followup.requests[i].base_url = Hosts[h] /\ FirstWorking(h)
    /\ (followup.probe_method # "none" /\ explorer.working_base_url = "unset") =>
          /\ followup.pc = "returned"
          /\ followup.returned = <<>>
          /\ followup.requests = <<>>
    /\ (followup.caller = "run_complete_exploration"
          /\ explorer.working_base_url = "unset") =>
          /\ followup.probe_method = "none"
          /\ followup.requests = <<>>
          /\ scan.report.made /\ scan.report.total_tests = Len(scan.returned)

(* run_complete_exploration ended after the three follow-up probes sent    *)
(* their eight requests, POST requests among them, to the second base URL. *)
C22_Witness ==
    /\ followup.caller = "run_complete_exploration"
    /\ followup.pc = "returned"
    /\ scan.report.made
    /\ explorer.working_base_url = Hosts[2]
    /\ Len(followup.requests) = 8
    /\ \E i \in DOMAIN followup.requests : followup.requests[i].method = "POST"

-----------------------------------------------------------------------------
(* The results of the read phases against the audit log, checked under     *)
(* SpecAnalyzer.                                                           *)

(* C23: in test_baseline_read_access and test_enhanced_access_endpoints    *)
(* the success flag stored in results for an endpoint equals the success   *)
(* flag of the audit entry logged for the request to that endpoint.        *)
C23_ResultsAgreeWithAudit ==
    \A phase \in {"test_baseline_read_access", "test_enhanced_access_endpoints"} :
        (frame.pc = phase /\ frame.i > 1 /\ last.made) =>
            LET name == Catalog(phase)[frame.i - 1][1]
                endpoint == Catalog(phase)[frame.i - 1][2]
            IN /\ Last(security_log).endpoint = endpoint
               /\ frame.results[name].success = Last(security_log).success

(* The safe_read_only_request calls the security checks rejected: those    *)
(* that handed nothing to session.request.                                 *)
Rejected == calls - Len(sent)

(* C24: in the report of generate_security_report write_attempts_blocked   *)
(* is the number of safe_read_only_request calls rejected since            *)
(* construction, and safety_status is VERIFIED SAFE exactly when no        *)
(* request with a mutating method was handed to session.request.           *)
C24_SecurityReportCounts ==
    (security_report.made /\ security_report.after_calls = calls) =>
        /\ security_report.report.write_attempts_blocked = Rejected
        /\ (security_report.report.safety_status = "VERIFIED SAFE")
              <=> (\A i \in DOMAIN sent : Upper(sent[i]) \notin blocked_methods)

-----------------------------------------------------------------------------
(* The capabilities summary of the report, checked under SpecInvestigator. *)

(* The number of counts of the summary a result goes into. *)
CountsHolding(r) ==
    Cardinality({k \in 1..5 :
        CASE k = 1 -> InReadAccess(r)
          [] k = 2 -> InWriteAccess(r)
          [] k = 3 -> InManagementAccess(r)
          [] k = 4 -> InDeleteAccess(r)
          [] k = 5 -> InAccountAccess(r)})

(* C25: every successful result goes into at most one of read_access,      *)
(* write_access, management_access, delete_access and account_access, so   *)
(* the five counts add up to at most successful_operations.                *)
C25_SummaryCountsDisjoint ==
    run.report.made =>
        LET summary == run.report.capabilities_summary
        IN /\ \A i \in DOMAIN investigator.results :
                 investigator.results[i].success =>
                     CountsHolding(investigator.results[i]) <= 1
           /\ summary.read_access + summary.write_access + summary.management_access
                 + summary.delete_access + summary.account_access
                 <= run.report.successful_operations

-----------------------------------------------------------------------------
(* The probes of the investigation run, checked under SpecInvestigator.    *)

(* C27: investigate_write_capabilities appends three results, for          *)
(* Create/Update Visitor, Create/Update Account and Update Guide in that   *)
(* order, whatever the API answers.                                        *)
C27_ThreeWriteResults ==
    run.pc = "aggregation" =>
        LET results == investigator.results
            n == Len(ReadOps)
        IN /\ Len(results) = n + 3
           /\ results[n + 1].operation = "Create/Update Visitor"
           /\ results[n + 2].operation = "Create/Update Account"
           /\ results[n + 3].operation = "Update Guide"

-----------------------------------------------------------------------------
(* test_connection, checked under SpecConnection.                          *)

(* The probe request was answered with a status below 400 and a body that  *)
(* parses.                                                                 *)
Answered(resp) ==
    resp.kind = "response" /\ resp.status < 400 /\ resp.body \in ClientBodies

(* C29: test_connection of either client returns a boolean and raises      *)
(* nothing: True when the probe request is answered with a status that is  *)
(* no error and a body that parses, False for a transport error and for an *)
(* error status whatever its body.                                         *)
C29_TestConnectionIsBoolean ==
    \A i \in DOMAIN connection :
        /\ connection[i].out.kind = "value"
        /\ connection[i].out.value = IF Answered(connection[i].resp)
                                     THEN "True" ELSE "False"

(* The exchange shows that the visitor was not found: a 404, or an answer  *)
(* that is an object with an 'error' key.                                  *)
NotFoundShown(resp) ==
    /\ resp.kind = "response"
    /\ resp.status = 404 \/ (resp.status < 400 /\ resp.body = "dict_error")

(* C28: investigate_delete_capabilities sends no DELETE request; each call *)
(* sends one GET and logs one 'Delete Visitor' result, a success exactly   *)
(* when the exchange shows that the visitor was not found.  Checked under  *)
(* SpecDelete.                                                             *)
C28_DeleteProbeIsOneGet ==
    /\ \A i \in DOMAIN run.requests : run.requests[i].method = "GET"
    /\ Len(run.requests) = Len(run.delete_probes)
    /\ Len(investigator.results) = Len(run.delete_probes)
    /\ \A i \in DOMAIN run.delete_probes :
          /\ investigator.results[i].operation = "Delete Visitor"
          /\ investigator.results[i].success = NotFoundShown(run.delete_probes[i])

-----------------------------------------------------------------------------
(* The report of run_full_exploration, checked under SpecExploration.      *)

(* C26: however many times run_full_exploration is called on an explorer,  *)
(* the report has successful_endpoints equal to the number of successes in *)
(* its detailed_results, so success_rate lies between 0 and 100.           *)
C26_ReportCountsItsOwnResults ==
    exploration.report.made =>
        LET report == exploration.report
        IN /\ report.successful_endpoints =
                 Cardinality({i \in DOMAIN report.detailed_results :
                                 report.detailed_results[i].success})
           /\ 0 <= report.success_rate.of
           /\ report.success_rate.of <= report.success_rate.over

-----------------------------------------------------------------------------
(* The add, commit and push workflow, checked under SpecCommitter.         *)

Workflow == <<"add", "commit", "push">>

(* The workflow commands the call ran, in the order it ran them. *)
WorkflowRan ==
    SelectSeq(committer.ran,
              LAMBDA g : \E i \in DOMAIN Workflow : g.command = Workflow[i])

Ran(command) == \E i \in DOMAIN committer.ran : committer.ran[i].command = command

RanWell(command) ==
    \E i \in DOMAIN committer.ran : committer.ran[i] = Git(command, "ok")

ReturnedValue(v) == committer.returned.kind = "value" /\ committer.returned.value = v

(* C30: auto_commit_and_push runs add, commit and push in that order;      *)
(* push is run only after add and commit succeeded and commit only after   *)
(* add succeeded; it returns True only when all three succeeded or when    *)
(* the repository had no changes and none of them was run; and when the    *)
(* path is not a git repository it returns False and runs none of them.    *)
C30_AddCommitPush ==
    /\ \E n \in 0..Len(Workflow) :
         /\ Len(WorkflowRan) = n
         /\ \A i \in 1..n : WorkflowRan[i].command = Workflow[i]
    /\ Ran("push") => RanWell("add") /\ RanWell("commit")
    /\ Ran("commit") => RanWell("add")
    /\ ReturnedValue(TRUE) =>
         \/ \A i \in DOMAIN Workflow : RanWell(Workflow[i])
         \/ /\ committer.status.kind = "value"
            /\ committer.status.value.is_git_repo
            /\ ~committer.status.value.has_changes
            /\ WorkflowRan = <<>>
    /\ committer.path # "repository" =>
         /\ ReturnedValue(FALSE)
         /\ WorkflowRan = <<>>
=============================================================================
